---- MODULE Spec2Model ----
(***************************************************************************)
(* The content ingestion pipeline of popg-ai-bot (trainer-optimized.js):   *)
(* the chunker, the embedding batcher, the crawl orchestrator and the      *)
(* vector store writer, each as a state machine translated from its code.  *)
(*                                                                         *)
(* One specification per component:                                        *)
(*   SpecChunk  splitTextIntoChunks, one action per loop iteration         *)
(*   SpecEmbed  generateEmbeddings, one action per API request             *)
(*   SpecCrawl  crawlWebsite, one action per dequeued frontier entry       *)
(*   SpecRun    trainAIBot / storeInChromaDB, two runs one after the other *)
(***************************************************************************)
EXTENDS Integers, Sequences, FiniteSets, TLC

VARIABLES
    \* splitTextIntoChunks
    text,          \* the text argument (a sequence of runs, see below)
    chunkSize,     \* the chunkSize argument, replaced by 1500 when invalid
    overlap,       \* the overlap argument, replaced by 150 when invalid
    start,         \* the cursor
    chunks,        \* the chunks pushed so far (their places in text)
    cPc,           \* "idle" | "entry" | "loop" | "done"
    cArgs,         \* the (chunkSize, overlap) pair the caller passed
    cIter,         \* history: loop iterations executed
    cForced,       \* history: iterations that advanced by floor(chunkSize/2)
    \* generateEmbeddings
    textArray,         \* the argument: texts [id, len], id the text's identity
    embeddings,        \* the vectors collected by the current invocation
    currentBatch,      \* the sub-batch being accumulated
    currentBatchChars, \* its total length
    geI,               \* the loop index i (1-based)
    geReq,             \* the input of the request awaiting its response
    gePc,              \* "idle" | "call" | "single" | "batch" | "sub" | "final"
                       \* | "individual" | "returned" | "thrown"
    geCalls,           \* history: invocations so far (the first and its retries)
    geErrors,          \* history: error responses of the API so far
    geReqs,            \* history: requests sent by the current invocation's try block
    geItemReqs,        \* history: requests sent by the per-item fallback
    geStatus,          \* the status of the error thrown to the caller
    geResult,          \* the value returned to the caller
    \* crawlWebsite
    startUrls,         \* the argument: the seed URLs, in order
    visitedPages,      \* the Set of URLs dequeued and fetched
    pagesToVisit,      \* the frontier: a queue of [url, depth]
    scrapedContent,    \* the PageDocuments collected, in order
    crPc,              \* "idle" | "loop" | "done"
    fetched,           \* history: the [url, depth] passed to scrapePage, in order
    crSkipped,         \* history: the entries dropped at dequeue, in order
    crDelayed,         \* history: the last processed entry was followed by the delay
    \* trainAIBot and storeInChromaDB
    run,               \* which ingestion run this is (1, then 2)
    tPc,               \* "idle" | "crawl" | "delete" | "create" | "page" | "batch"
                       \* | "embedding" | "done" | "failed"
    coll,              \* the collection popg_content in ChromaDB: [exists, records]
    pageIndex,         \* the page loop index (0-based)
    batchStart,        \* the batch loop index i (0-based)
    totalChunks,       \* the counter of chunks stored
    itemFailures,      \* history: calls of this run that threw from the per-item fallback
    priorRecords,      \* history: the collection held records when this run started
    addFailures,       \* history: calls of collection.add of this run that were rejected
    passedIds,         \* history: the ids passed to collection.add in this run, in order
    now,               \* the clock: the value Date.now() returns
    trainer,           \* which trainer runs: "optimized" (trainer-optimized.js),
                       \* "legacy" (the trainer of unnamed/part_002) or
                       \* "trainer.js"
    fallbackK,         \* legacy trainer: the index k of the per-chunk fallback
    legacyErrors,      \* legacy trainer, history: requests of this run that failed
    \* the chat widget of public/embed.js
    widgetCreated,     \* createWidget has run: the container and the toggle exist
    isOpen,            \* the flag of the click handler
    containerScale,    \* the container's transform: scale(0) hidden, scale(1) shown
    toggleClasses,     \* the classList of the toggle button
    widgetLog,         \* history: the clicks and API calls, [op, loaded], in order
    \* a second trainer process, started against the same ChromaDB
    peerPc,            \* "idle" | "delete" | "create" | "add" | "done" | "failed"
    peerBatch,         \* the batches it has passed to collection.add
    peerStored,        \* its counter of chunks stored
    overlapped,        \* history: it entered storeInChromaDB while the other run
                       \* was inside it
    \* the trainer run twice over the same pages
    batchLog,          \* history: per batch of this run, in order, how it ended and
                       \* the records it added
    firstBatchLog,     \* history: the batchLog of the first run
    \* the chat widget of public/widget.js
    isLoading,         \* this.isLoading
    messageInput,      \* the value of the input field
    sendBtnDisabled,   \* sendBtn.disabled
    welcomeShown,      \* the welcome section is displayed
    typingShown,       \* the typing indicator is displayed
    conversationHistory, \* this.conversationHistory
    errorShown,        \* the error toast is displayed
    errorTimers,       \* the timers of showError that have not fired
    chatRequests,      \* the requests to the chat API that are in flight
    chatSent,          \* history: requests sent
    chatIgnored,       \* history: invocations that returned early on isLoading
    chatCalls          \* history: handler invocations

chunkVars == <<text, chunkSize, overlap, start, chunks, cPc, cArgs, cIter, cForced>>

embedVars == <<textArray, embeddings, currentBatch, currentBatchChars, geI, geReq,
               gePc, geCalls, geErrors, geReqs, geItemReqs, geStatus, geResult>>

crawlVars == <<startUrls, visitedPages, pagesToVisit, scrapedContent, crPc, fetched,
               crSkipped, crDelayed>>

runVars == <<run, tPc, coll, pageIndex, batchStart, totalChunks, itemFailures, priorRecords,
             addFailures, passedIds, now, trainer, fallbackK, legacyErrors>>

widgetVars == <<widgetCreated, isOpen, containerScale, toggleClasses, widgetLog>>

\* the trainer's state, and the state of the other programs of the repository
trainerVars == <<chunkVars, embedVars, crawlVars, runVars>>
peerVars == <<peerPc, peerBatch, peerStored, overlapped>>
rerunVars == <<batchLog, firstBatchLog>>
chatVars == <<isLoading, messageInput, sendBtnDisabled, welcomeShown, typingShown,
              conversationHistory, errorShown, errorTimers, chatRequests, chatSent,
              chatIgnored, chatCalls>>
otherPrograms == <<widgetVars, peerVars, rerunVars, chatVars>>

vars == <<trainerVars, otherPrograms>>

otherThanChunk == <<embedVars, crawlVars, runVars, otherPrograms>>
otherThanEmbed == <<chunkVars, crawlVars, runVars, otherPrograms>>
otherThanCrawl == <<chunkVars, embedVars, runVars, otherPrograms>>

-----------------------------------------------------------------------------
(* Bounds of the model *)

\* Half-width of the neighbourhood of lengths tried around each threshold.
Delta == 1

\* Error responses the embedding API gives during one call of generateEmbeddings.
MaxApiErrors == 4

\* CONFIG.maxDepth and CONFIG.maxPages are configuration (3 and 100 in
\* trainer-optimized.js, 1 and 3 in trainer.js): the crawl is checked for
\* small values of both.
maxDepth == 1
maxPages == 3

\* Seed URLs given to one crawl, and anchors read from one page.
MaxSeeds == 2
MaxLinks == 1

\* Pages one crawl hands to storeInChromaDB, and failed API requests within
\* one call of generateEmbeddings made by storeInChromaDB.
MaxRunPages == 2
MaxRunApiErrors == 2

\* Milliseconds that pass while the pages are stored, and requests that fail
\* in one run of the legacy trainer.
MaxClock == 1
MaxLegacyErrors == 2

\* Failed API requests within one call of generateEmbeddings when the trainer
\* is run twice over the same pages.
MaxRerunApiErrors == 1

\* Iterations of the loop of trainer.js's splitTextIntoChunks that are followed.
MaxSimpleIters == 10

-----------------------------------------------------------------------------
(* Integers *)

Min(a, b) == IF a <= b THEN a ELSE b
Max(a, b) == IF a >= b THEN a ELSE b
SetMin(S) == CHOOSE x \in S : \A y \in S : x <= y
SetMax(S) == CHOOSE x \in S : \A y \in S : x >= y
Around(k) == (k - Delta)..(k + Delta)

-----------------------------------------------------------------------------
(* Texts.  A JavaScript string is modelled by its runs of whitespace and   *)
(* non-whitespace characters: a sequence of [ws, n], n characters each.    *)
(* Positions are 0-based, as in String.prototype.slice.                    *)

Ink(n)   == [ws |-> FALSE, n |-> n]
Blank(n) == [ws |-> TRUE, n |-> n]

RECURSIVE SumRuns(_, _)
SumRuns(t, k) == IF k = 0 THEN 0 ELSE t[k].n + SumRuns(t, k - 1)

\* text.length
TextLen(t) == SumRuns(t, Len(t))

\* the runs of non-whitespace that meet the window [s, e)
InkRuns(t, s, e) ==
    {k \in 1..Len(t) : /\ ~t[k].ws
                       /\ t[k].n > 0
                       /\ SumRuns(t, k - 1) < e
                       /\ SumRuns(t, k) > s}

\* text.slice(s, e).trim(): the place [from, to) of the trimmed slice in text
\* (an all-whitespace slice trims to the empty string)
TrimmedSlice(t, s, e) ==
    LET ks == InkRuns(t, s, e)
    IN  IF ks = {} THEN [from |-> s, to |-> s]
        ELSE [from |-> Max(s, SumRuns(t, SetMin(ks) - 1)),
              to   |-> Min(e, SumRuns(t, SetMax(ks)))]

-----------------------------------------------------------------------------
(* splitTextIntoChunks (trainer-optimized.js) *)

\* the literals of the function body
MinChunkChars    == 100
DefaultChunkSize == 1500
DefaultOverlap   == 150
MaxChunks        == 1000

\* the overlap of the caller kept when the pair is invalid
OverlapOfCaller(cs, ov) == ov

\* lines 204-208: an invalid pair is replaced by the defaults
EffectiveChunkSize(cs, ov) == IF cs <= ov THEN DefaultChunkSize ELSE cs

EffectiveOverlap(cs, ov) == IF cs <= ov THEN DefaultOverlap ELSE ov

\* the push of every window that is not empty once trimmed
PushChunkWithoutMinimum(t, cs, st, cks) ==
    LET end   == Min(st + cs, TextLen(t))
        chunk == TrimmedSlice(t, st, end)
    IN  IF chunk.to - chunk.from > 0 THEN Append(cks, chunk) ELSE cks

\* the push that also takes a chunk of exactly the minimum length
PushChunkAtMinimum(t, cs, st, cks) ==
    LET end   == Min(st + cs, TextLen(t))
        chunk == TrimmedSlice(t, st, end)
    IN  IF chunk.to - chunk.from >= MinChunkChars THEN Append(cks, chunk) ELSE cks

\* lines 213-218: the chunks after the push of this iteration
PushChunk(t, cs, st, cks) ==
    LET end   == Min(st + cs, TextLen(t))
        chunk == TrimmedSlice(t, st, end)
    IN  IF chunk.to - chunk.from > MinChunkChars THEN Append(cks, chunk) ELSE cks

\* the advance without the check that it moves the cursor forward
NextStartUnguarded(t, cs, ov, st) == Min(st + cs, TextLen(t)) - ov

\* lines 221-226: the cursor after this iteration
NextStart(t, cs, ov, st) ==
    LET end       == Min(st + cs, TextLen(t))
        nextStart == end - ov
    IN  IF nextStart <= st THEN st + (cs \div 2) ELSE nextStart

\* lines 228-234: the two breaks
LoopBreaks(t, st, cks) == st >= TextLen(t) \/ Len(cks) > MaxChunks

\* lines 199-208: validation of the arguments
SplitValidate ==
    /\ cPc = "entry"
    /\ IF TextLen(text) = 0
       THEN cPc' = "done" /\ UNCHANGED <<chunkSize, overlap>>
       ELSE /\ chunkSize' = EffectiveChunkSize(chunkSize, overlap)
            /\ overlap' = EffectiveOverlap(chunkSize, overlap)
            /\ cPc' = "loop"
    /\ UNCHANGED <<text, start, chunks, cArgs, cIter, cForced>>
    /\ UNCHANGED otherThanChunk

\* lines 212-235: one iteration of the while loop
SplitIterate ==
    /\ cPc = "loop"
    /\ start < TextLen(text)
    /\ chunks' = PushChunk(text, chunkSize, start, chunks)
    /\ start' = NextStart(text, chunkSize, overlap, start)
    /\ cPc' = IF LoopBreaks(text, start', chunks') THEN "done" ELSE "loop"
    /\ cIter' = cIter + 1
    /\ cForced' = IF Min(start + chunkSize, TextLen(text)) - overlap <= start
                  THEN cForced + 1 ELSE cForced
    /\ UNCHANGED <<text, chunkSize, overlap, cArgs>>
    /\ UNCHANGED otherThanChunk

\* the function as a whole, for its callers
RECURSIVE SplitLoop(_, _, _, _, _)
SplitLoop(t, cs, ov, st, cks) ==
    CHOOSE result \in
        {IF LoopBreaks(t, next.start, next.chunks) THEN next.chunks
         ELSE SplitLoop(t, cs, ov, next.start, next.chunks) :
            next \in {[chunks |-> PushChunk(t, cs, st, cks),
                       start  |-> NextStart(t, cs, ov, st)]}} : TRUE

splitTextIntoChunks(t, cs, ov) ==
    IF TextLen(t) = 0 THEN <<>>
    ELSE SplitLoop(t, EffectiveChunkSize(cs, ov), EffectiveOverlap(cs, ov), 0, <<>>)

-----------------------------------------------------------------------------
(* generateEmbeddings (trainer-optimized.js) *)

\* line 254 and CONFIG
maxBatchSize        == 100
maxTokensPerRequest == 8000
maxRetries          == 3

\* a text of the argument
TextItem(i, n) == [id |-> i, len |-> n]

RECURSIVE SumLens(_, _)
SumLens(ta, k) == IF k = 0 THEN 0 ELSE ta[k].len + SumLens(ta, k - 1)

\* line 249: textArray.reduce((sum, text) => sum + text.length, 0)
TotalChars(ta) == SumLens(ta, Len(ta))

\* openai.embeddings.create answering a request: response.data holds one
\* embedding per input, in the order of the input; a vector records the text
\* it embeds and the invocation that asked for it
ApiData(input, call) == [k \in 1..Len(input) |-> [of |-> input[k].id, call |-> call]]

\* the loop flushing as soon as the batch reaches the character budget
RECURSIVE AccumulateFlushingAtBudget(_, _, _, _)
AccumulateFlushingAtBudget(ta, i, cb, cbc) ==
    IF i > Len(ta)
    THEN [i |-> i, batch |-> cb, chars |-> cbc, flush |-> FALSE]
    ELSE IF \/ Len(cb) >= maxBatchSize
            \/ (cbc + ta[i].len >= maxTokensPerRequest /\ Len(cb) > 0)
         THEN [i |-> i, batch |-> cb, chars |-> cbc, flush |-> TRUE]
         ELSE AccumulateFlushingAtBudget(ta, i + 1, Append(cb, ta[i]), cbc + ta[i].len)

\* the loop flushing only when the batch holds more than maxBatchSize texts
RECURSIVE AccumulateOffByOne(_, _, _, _)
AccumulateOffByOne(ta, i, cb, cbc) ==
    IF i > Len(ta)
    THEN [i |-> i, batch |-> cb, chars |-> cbc, flush |-> FALSE]
    ELSE IF \/ Len(cb) > maxBatchSize
            \/ (cbc + ta[i].len > maxTokensPerRequest /\ Len(cb) > 0)
         THEN [i |-> i, batch |-> cb, chars |-> cbc, flush |-> TRUE]
         ELSE AccumulateOffByOne(ta, i + 1, Append(cb, ta[i]), cbc + ta[i].len)

\* lines 290-315: the for loop from index i on, up to the next flush
\* (flush = TRUE, i the text that did not fit) or to the end of the array
RECURSIVE Accumulate(_, _, _, _)
Accumulate(ta, i, cb, cbc) ==
    IF i > Len(ta)
    THEN [i |-> i, batch |-> cb, chars |-> cbc, flush |-> FALSE]
    ELSE IF \/ Len(cb) >= maxBatchSize
            \/ (cbc + ta[i].len > maxTokensPerRequest /\ Len(cb) > 0)
         THEN [i |-> i, batch |-> cb, chars |-> cbc, flush |-> TRUE]
         ELSE Accumulate(ta, i + 1, Append(cb, ta[i]), cbc + ta[i].len)

\* the vectors of a response put in front of those collected before
PushAllInFront(embs, data) == data \o embs

\* lines 305 and 325: embeddings.push(...batchResponse.data.map(...))
PushAll(embs, data) == embs \o data

\* lines 298-303 and 317-324: the loop has stopped at a, send what it holds
SendAccumulated(a) ==
    /\ currentBatch' = a.batch
    /\ currentBatchChars' = a.chars
    /\ geI' = a.i
    /\ IF a.flush \/ Len(a.batch) > 0
       THEN /\ geReq' = a.batch
            /\ gePc' = IF a.flush THEN "sub" ELSE "final"
            /\ geReqs' = geReqs + 1
            /\ geResult' = geResult
       ELSE /\ geReq' = <<>>
            /\ gePc' = "returned"
            /\ geReqs' = geReqs
            /\ geResult' = embeddings'

\* lines 244-299: entry of an invocation up to its first request
GeCall ==
    /\ gePc = "call"
    /\ embeddings' = <<>>
    /\ geItemReqs' = 0
    /\ IF Len(textArray) = 1
       THEN /\ geReq' = <<textArray[1]>>
            /\ gePc' = "single"
            /\ geReqs' = 1
            /\ UNCHANGED <<currentBatch, currentBatchChars, geI, geResult>>
       ELSE IF Len(textArray) <= maxBatchSize /\ TotalChars(textArray) < maxTokensPerRequest
            THEN /\ geReq' = textArray
                 /\ gePc' = "batch"
                 /\ geReqs' = 1
                 /\ UNCHANGED <<currentBatch, currentBatchChars, geI, geResult>>
            ELSE /\ SendAccumulated(Accumulate(textArray, 1, <<>>, 0))
    /\ UNCHANGED <<textArray, geCalls, geErrors, geStatus>>
    /\ UNCHANGED otherThanEmbed

\* lines 259-266: the single request succeeds
GeSingleOk ==
    /\ gePc = "single"
    /\ geResult' = <<ApiData(geReq, geCalls)[1]>>
    /\ gePc' = "returned"
    /\ geReq' = <<>>
    /\ UNCHANGED <<textArray, embeddings, currentBatch, currentBatchChars, geI,
                   geCalls, geErrors, geReqs, geItemReqs, geStatus>>
    /\ UNCHANGED otherThanEmbed

\* lines 272-281: the one-batch request succeeds
GeBatchOk ==
    /\ gePc = "batch"
    /\ geResult' = ApiData(geReq, geCalls)
    /\ gePc' = "returned"
    /\ geReq' = <<>>
    /\ UNCHANGED <<textArray, embeddings, currentBatch, currentBatchChars, geI,
                   geCalls, geErrors, geReqs, geItemReqs, geStatus>>
    /\ UNCHANGED otherThanEmbed

\* lines 299-315: a sub-batch request succeeds; the loop goes on with text i
GeSubBatchOk ==
    /\ gePc = "sub"
    /\ embeddings' = PushAll(embeddings, ApiData(geReq, geCalls))
    /\ SendAccumulated(Accumulate(textArray, geI + 1, <<textArray[geI]>>, textArray[geI].len))
    /\ UNCHANGED <<textArray, geCalls, geErrors, geItemReqs, geStatus>>
    /\ UNCHANGED otherThanEmbed

\* lines 318-330: the request of the remaining batch succeeds
GeFinalOk ==
    /\ gePc = "final"
    /\ embeddings' = PushAll(embeddings, ApiData(geReq, geCalls))
    /\ geResult' = embeddings'
    /\ gePc' = "returned"
    /\ geReq' = <<>>
    /\ UNCHANGED <<textArray, currentBatch, currentBatchChars, geI,
                   geCalls, geErrors, geReqs, geItemReqs, geStatus>>
    /\ UNCHANGED otherThanEmbed

\* a request of the try block is awaiting its response
InTryBlock == gePc \in {"single", "batch", "sub", "final"}

\* status 429 answered by sending the same request again, the vectors
\* collected so far being kept
GeRateLimitedResending ==
    /\ InTryBlock
    /\ geErrors < MaxApiErrors
    /\ geErrors' = geErrors + 1
    /\ geCalls' = geCalls + 1
    /\ UNCHANGED <<textArray, embeddings, currentBatch, currentBatchChars, geI, geReq,
                   gePc, geReqs, geItemReqs, geStatus, geResult>>
    /\ UNCHANGED otherThanEmbed

\* lines 332-341: status 429; after the cooldown the function calls itself
GeRateLimited ==
    /\ InTryBlock
    /\ geErrors < MaxApiErrors
    /\ geErrors' = geErrors + 1
    /\ gePc' = "call"
    /\ geCalls' = geCalls + 1
    /\ geReq' = <<>>
    /\ embeddings' = <<>>
    /\ geReqs' = 0
    /\ UNCHANGED <<textArray, currentBatch, currentBatchChars, geI, geItemReqs,
                   geStatus, geResult>>
    /\ UNCHANGED otherThanEmbed

\* the fallback started whatever the number of texts
GeBadRequestForAnyLength ==
    /\ InTryBlock
    /\ Len(textArray) >= 1
    /\ geErrors < MaxApiErrors
    /\ geErrors' = geErrors + 1
    /\ embeddings' = <<>>
    /\ geI' = 1
    /\ geReq' = <<textArray[1]>>
    /\ geItemReqs' = 1
    /\ gePc' = "individual"
    /\ UNCHANGED <<textArray, currentBatch, currentBatchChars, geCalls, geReqs,
                   geStatus, geResult>>
    /\ UNCHANGED otherThanEmbed

\* lines 343-351: status 400 for more than one text; the per-item fallback
\* starts and sends its first request
GeBadRequest ==
    /\ InTryBlock
    /\ Len(textArray) > 1
    /\ geErrors < MaxApiErrors
    /\ geErrors' = geErrors + 1
    /\ embeddings' = <<>>
    /\ geI' = 1
    /\ geReq' = <<textArray[1]>>
    /\ geItemReqs' = 1
    /\ gePc' = "individual"
    /\ UNCHANGED <<textArray, currentBatch, currentBatchChars, geCalls, geReqs,
                   geStatus, geResult>>
    /\ UNCHANGED otherThanEmbed

\* line 364: any other failure of the try block is thrown to the caller
\* (status 400 for a single text included)
GeOtherError ==
    /\ InTryBlock
    /\ geErrors < MaxApiErrors
    /\ \E status \in {400, 500} :
          /\ status = 400 => Len(textArray) <= 1
          /\ geStatus' = status
    /\ geErrors' = geErrors + 1
    /\ gePc' = "thrown"
    /\ geReq' = <<>>
    /\ UNCHANGED <<textArray, embeddings, currentBatch, currentBatchChars, geI,
                   geCalls, geReqs, geItemReqs, geResult>>
    /\ UNCHANGED otherThanEmbed

\* lines 346-361: a request of the fallback succeeds
GeIndividualOk ==
    /\ gePc = "individual"
    /\ embeddings' = Append(embeddings, ApiData(geReq, geCalls)[1])
    /\ IF geI = Len(textArray)
       THEN /\ geResult' = embeddings'
            /\ gePc' = "returned"
            /\ geReq' = <<>>
            /\ UNCHANGED <<geI, geItemReqs>>
       ELSE /\ geI' = geI + 1
            /\ geReq' = <<textArray[geI + 1]>>
            /\ geItemReqs' = geItemReqs + 1
            /\ UNCHANGED <<gePc, geResult>>
    /\ UNCHANGED <<textArray, currentBatch, currentBatchChars, geCalls, geErrors,
                   geReqs, geStatus>>
    /\ UNCHANGED otherThanEmbed

\* a failed request of the fallback handled like one of the try block:
\* status 429 starts the function again
GeIndividualErrorRetrying ==
    /\ gePc = "individual"
    /\ geErrors < MaxApiErrors
    /\ geErrors' = geErrors + 1
    /\ geReq' = <<>>
    /\ \E status \in {400, 429, 500} :
          IF status = 429
          THEN /\ gePc' = "call"
               /\ geCalls' = geCalls + 1
               /\ embeddings' = <<>>
               /\ geReqs' = 0
               /\ UNCHANGED geStatus
          ELSE /\ gePc' = "thrown"
               /\ geStatus' = status
               /\ UNCHANGED <<embeddings, geCalls, geReqs>>
    /\ UNCHANGED <<textArray, currentBatch, currentBatchChars, geI, geItemReqs, geResult>>
    /\ UNCHANGED otherThanEmbed

\* lines 356-359: a request of the fallback fails; the error is rethrown
GeIndividualError ==
    /\ gePc = "individual"
    /\ geErrors < MaxApiErrors
    /\ \E status \in {400, 429, 500} : geStatus' = status
    /\ geErrors' = geErrors + 1
    /\ gePc' = "thrown"
    /\ geReq' = <<>>
    /\ UNCHANGED <<textArray, embeddings, currentBatch, currentBatchChars, geI,
                   geCalls, geReqs, geItemReqs, geResult>>
    /\ UNCHANGED otherThanEmbed

GenerateEmbeddings ==
    \/ GeCall
    \/ GeSingleOk
    \/ GeBatchOk
    \/ GeSubBatchOk
    \/ GeFinalOk
    \/ GeRateLimited
    \/ GeBadRequest
    \/ GeOtherError
    \/ GeIndividualOk
    \/ GeIndividualError

-----------------------------------------------------------------------------
(* URLs.  A URL string is modelled by the parts the code reads: the host (a  *)
(* sequence of characters, empty when new URL() rejects the string), the     *)
(* path as written ("" when the string ends right after the host) and the    *)
(* fragment.                                                                 *)

Url(h, p, f) == [host |-> h, path |-> p, hash |-> f]

PopgCom     == <<"p", "o", "p", "g", ".", "c", "o", "m">>
PopVip      == <<"p", "o", "p", ".", "v", "i", "p">>
DocsGoogle  == <<"d", "o", "c", "s", ".", "g", "o", "o", "g", "l", "e", ".", "c", "o", "m">>
SubPopgCom  == <<"s", "u", "b", ".">> \o PopgCom
EvilPopgCom == <<"e", "v", "i", "l", "-">> \o PopgCom

\* CONFIG.allowedDomains
allowedDomains == {PopgCom, PopVip, DocsGoogle}

\* new URL(url) does not throw
Parsable(url) == url.host # <<>>

\* String.prototype.endsWith
EndsWith(str, suffix) ==
    /\ Len(suffix) <= Len(str)
    /\ SubSeq(str, Len(str) - Len(suffix) + 1, Len(str)) = suffix

\* new URL(url).pathname: the path of a URL without one is "/"
Pathname(url) == IF url.path = "" THEN "/" ELSE url.path

\* lines 51-62: normalizeUrl of an absolute href; <<>> stands for null
normalizeUrl(url) ==
    IF ~Parsable(url) THEN <<>>
    ELSE <<Url(url.host, Pathname(url), "")>>

\* the host test matching any host that ends with the domain
isAllowedDomainBySuffix(url) ==
    /\ Parsable(url)
    /\ \E domain \in allowedDomains : EndsWith(url.host, domain)

\* lines 67-76
isAllowedDomain(url) ==
    /\ Parsable(url)
    /\ \E domain \in allowedDomains :
          url.host = domain \/ EndsWith(url.host, <<".">> \o domain)

\* lines 81-88: the pathname, lower-cased, ends with ".pdf"
isPdfUrl(url) == Parsable(url) /\ Pathname(url) \in {"/b.pdf", "/B.PDF"}

-----------------------------------------------------------------------------
(* scrapePage and processPdf (trainer-optimized.js) *)

MinContentChars  == 200
maxContentSize   == 100000

\* what the fetch of a URL gives: ok = FALSE when axios or the parser throws;
\* textLen the length of the extracted text (of the trimmed text of a PDF),
\* cleanLen the length of a PDF's text with its whitespace collapsed, hrefs
\* the absolute URLs of the page's anchors in document order
Response(ok, textLen, cleanLen, hrefs) ==
    [ok |-> ok, textLen |-> textLen, cleanLen |-> cleanLen, hrefs |-> hrefs]

\* a PageDocument, without the fields the pipeline never reads back
PageData(url, content, links, pdf) ==
    [url |-> url, content |-> content, internalLinks |-> links, isPdf |-> pdf]

\* [...new Set(internalLinks)]: the first occurrence of each link, in order
RECURSIVE Dedup(_)
Dedup(seq) ==
    IF seq = <<>> THEN <<>>
    ELSE LET front == Dedup(SubSeq(seq, 1, Len(seq) - 1))
             last  == seq[Len(seq)]
         IN  IF \E k \in 1..Len(front) : front[k] = last THEN front
             ELSE Append(front, last)

\* lines 418-428: the anchors, normalized, that are in an allowed domain
RECURSIVE AllowedLinks(_)
AllowedLinks(hrefs) ==
    IF hrefs = <<>> THEN <<>>
    ELSE LET n == normalizeUrl(Head(hrefs))
         IN  (IF n # <<>> /\ isAllowedDomain(n[1]) THEN n ELSE <<>>)
                \o AllowedLinks(Tail(hrefs))

\* lines 431-440: the PDF anchors are pushed a second time
PdfLinks(links) == SelectSeq(links, isPdfUrl)

\* lines 93-169: processPdf; <<>> stands for null
processPdf(url, r) ==
    IF ~r.ok \/ r.textLen < MinContentChars THEN <<>>
    ELSE <<PageData(url, <<Ink(Min(r.cleanLen, maxContentSize))>>, <<>>, TRUE)>>

\* lines 371-458: scrapePage; <<>> stands for null
scrapePage(url, r) ==
    IF isPdfUrl(url) THEN processPdf(url, r)
    ELSE IF ~r.ok \/ r.textLen < MinContentChars THEN <<>>
    ELSE LET links == AllowedLinks(r.hrefs)
         IN  <<PageData(url, <<Ink(Min(r.textLen, maxContentSize))>>,
                        Dedup(links \o PdfLinks(links)), FALSE)>>

-----------------------------------------------------------------------------
(* crawlWebsite (trainer-optimized.js) *)

Entry(url, depth) == [url |-> url, depth |-> depth]

\* the loop condition letting one page more through
LoopContinuesInclusive(queue, visited) == Len(queue) > 0 /\ Cardinality(visited) <= maxPages

\* line 475: the loop condition
LoopContinues(queue, visited) == Len(queue) > 0 /\ Cardinality(visited) < maxPages

\* the dequeue test without the look into the visited set
SkipEntryIgnoringVisited(entry, visited) ==
    \/ entry.depth > maxDepth
    \/ ~isAllowedDomain(entry.url)

\* the dequeue test without the look at the host
SkipEntryIgnoringDomain(entry, visited) ==
    \/ entry.url \in visited
    \/ entry.depth > maxDepth

\* line 478: the entry is dropped at dequeue
SkipEntry(entry, visited) ==
    \/ entry.url \in visited
    \/ entry.depth > maxDepth
    \/ ~isAllowedDomain(entry.url)

\* line 497: pagesToVisit.some(p => p.url === link)
Pending(queue, link) == \E k \in 1..Len(queue) : queue[k].url = link

\* the links enqueued without the look into the queue
RECURSIVE EnqueueLinksIgnoringPending(_, _, _, _)
EnqueueLinksIgnoringPending(links, depth, visited, queue) ==
    IF links = <<>> THEN queue
    ELSE LET link == Head(links)
             q2   == IF link \notin visited /\ isAllowedDomain(link)
                     THEN Append(queue, Entry(link, depth + 1))
                     ELSE queue
         IN  EnqueueLinksIgnoringPending(Tail(links), depth, visited, q2)

\* the links put at the head of the queue instead of its tail
RECURSIVE EnqueueLinksAtHead(_, _, _, _)
EnqueueLinksAtHead(links, depth, visited, queue) ==
    IF links = <<>> THEN queue
    ELSE LET link == Head(links)
             q2   == IF /\ link \notin visited
                        /\ ~Pending(queue, link)
                        /\ isAllowedDomain(link)
                     THEN <<Entry(link, depth + 1)>> \o queue
                     ELSE queue
         IN  EnqueueLinksAtHead(Tail(links), depth, visited, q2)

\* lines 495-501: the links of a page are enqueued one after the other
RECURSIVE EnqueueLinks(_, _, _, _)
EnqueueLinks(links, depth, visited, queue) ==
    IF links = <<>> THEN queue
    ELSE LET link == Head(links)
             q2   == IF /\ link \notin visited
                        /\ ~Pending(queue, link)
                        /\ isAllowedDomain(link)
                     THEN Append(queue, Entry(link, depth + 1))
                     ELSE queue
         IN  EnqueueLinks(Tail(links), depth, visited, q2)

\* line 491: the page as the later stages read it (its links are not read
\* again once the frontier has been extended)
Kept(page) == [url |-> page.url, content |-> page.content, isPdf |-> page.isPdf]

\* line 490: the page is kept
Accepted(pageData) == pageData # <<>> /\ TextLen(pageData[1].content) > MinContentChars

\* the frontier emptied by a page that is not kept
FrontierAfterAbandoning(pageData, depth, visited, queue) ==
    IF Accepted(pageData) /\ ~pageData[1].isPdf /\ depth < maxDepth
    THEN EnqueueLinks(pageData[1].internalLinks, depth, visited, queue)
    ELSE IF Accepted(pageData) THEN queue ELSE <<>>

\* lines 490-507: the frontier after the page has been processed
FrontierAfter(pageData, depth, visited, queue) ==
    IF Accepted(pageData) /\ ~pageData[1].isPdf /\ depth < maxDepth
    THEN EnqueueLinks(pageData[1].internalLinks, depth, visited, queue)
    ELSE queue

\* lines 476-480: an entry is dequeued and dropped without a fetch
CrawlSkip ==
    /\ crPc = "loop"
    /\ LoopContinues(pagesToVisit, visitedPages)
    /\ SkipEntry(Head(pagesToVisit), visitedPages)
    /\ pagesToVisit' = Tail(pagesToVisit)
    /\ crSkipped' = Append(crSkipped, Head(pagesToVisit))
    /\ UNCHANGED <<startUrls, visitedPages, scrapedContent, crPc, fetched, crDelayed>>
    /\ UNCHANGED otherThanCrawl

\* seqs of up to n elements of S
SeqsUpTo(S, n) == UNION {[1..k -> S] : k \in 0..n}

\* the anchors tried: the site's root written without a path, a page with a
\* fragment, a PDF, and a host that only ends like an allowed domain
Hrefs ==
    {Url(PopgCom, "", ""), Url(PopgCom, "/a", "#x"), Url(PopgCom, "/b.pdf", ""),
     Url(EvilPopgCom, "/", "")}

\* the pages tried: every page of up to MaxLinks anchors, and the pages that
\* hold each of the anchors once, in every order
PageHrefs ==
    SeqsUpTo(Hrefs, MaxLinks)
        \cup {page \in [1..Cardinality(Hrefs) -> Hrefs] :
                 \A i, j \in 1..Cardinality(Hrefs) : i # j => page[i] # page[j]}

\* the answers of the site tried for one fetch: a failure, a text below the
\* minimum, a text of exactly the minimum, a PDF whose text shrinks below the
\* minimum when its whitespace is collapsed, and a page with anchors
Responses ==
    {Response(FALSE, 0, 0, <<>>),
     Response(TRUE, MinContentChars - 1, MinContentChars - 1, <<>>),
     Response(TRUE, MinContentChars, MinContentChars, <<>>),
     Response(TRUE, MinContentChars + 1, MinContentChars - 1, <<>>)}
        \cup {Response(TRUE, MinContentChars + 1, MinContentChars + 1, hrefs) :
                 hrefs \in PageHrefs}

\* the delay awaited only when more than one entry waits
DelayAwaitedWhenSeveralWait(queue) == Len(queue) > 1

\* lines 509-511: the delay is awaited when an entry waits in the queue
DelayAwaited(queue) == Len(queue) > 0

\* lines 476-512: an entry is dequeued, fetched and processed
CrawlVisit ==
    /\ crPc = "loop"
    /\ LoopContinues(pagesToVisit, visitedPages)
    /\ ~SkipEntry(Head(pagesToVisit), visitedPages)
    /\ \E r \in Responses :
          LET entry == Head(pagesToVisit)
          IN  \E pageData \in {scrapePage(entry.url, r)} :
              /\ visitedPages' = visitedPages \cup {entry.url}
              /\ fetched' = Append(fetched, entry)
              /\ scrapedContent' = IF Accepted(pageData)
                                   THEN Append(scrapedContent, Kept(pageData[1]))
                                   ELSE scrapedContent
              /\ pagesToVisit' = FrontierAfter(pageData, entry.depth, visitedPages',
                                               Tail(pagesToVisit))
              /\ crDelayed' = DelayAwaited(pagesToVisit')
    /\ UNCHANGED <<startUrls, crPc, crSkipped>>
    /\ UNCHANGED otherThanCrawl

\* lines 475 and 515-535: the loop condition fails, the pages are returned
CrawlReturn ==
    /\ crPc = "loop"
    /\ ~LoopContinues(pagesToVisit, visitedPages)
    /\ crPc' = "done"
    /\ UNCHANGED <<startUrls, visitedPages, pagesToVisit, scrapedContent, fetched,
                   crSkipped, crDelayed>>
    /\ UNCHANGED otherThanCrawl

CrawlWebsite == CrawlSkip \/ CrawlVisit \/ CrawlReturn

-----------------------------------------------------------------------------
(* storeInChromaDB and trainAIBot (trainer-optimized.js) *)

\* CONFIG
ConfigChunkSize    == 1500
ConfigChunkOverlap == 150
embeddingBatchSize == 15

\* ChromaDB: chroma.deleteCollection removes the collection and its records;
\* it rejects when there is none, or when the request fails
deleteCollection(c, fails) ==
    IF c.exists /\ ~fails THEN [exists |-> FALSE, records |-> {}] ELSE c

\* ChromaDB: getOrCreateCollection, which hands back an existing collection
getOrCreateCollection(c) == <<[exists |-> TRUE, records |-> c.records]>>

\* ChromaDB: chroma.createCollection makes an empty collection and rejects
\* when one of that name exists; <<>> stands for the rejection
createCollection(c) ==
    IF c.exists THEN <<>> ELSE <<[exists |-> TRUE, records |-> {}]>>

\* a number in a template literal: its decimal digits
RECURSIVE Digits(_)
Digits(n) ==
    LET digit == <<"0", "1", "2", "3", "4", "5", "6", "7", "8", "9">>[(n % 10) + 1]
    IN  IF n < 10 THEN <<digit>> ELSE Append(Digits(n \div 10), digit)

\* the id without the chunk index
BatchIdWithoutChunk(pIndex, chunkIndex, time, j) ==
    <<"page_">> \o Digits(pIndex) \o <<"_chunk_">> \o <<"_">> \o Digits(time)
        \o <<"_">> \o Digits(j)

\* line 615: `page_${pageIndex}_chunk_${chunkIndex}_${Date.now()}_${j}`, a
\* string given as the fixed parts and the digits between them
BatchId(pIndex, chunkIndex, time, j) ==
    <<"page_">> \o Digits(pIndex) \o <<"_chunk_">> \o Digits(chunkIndex)
        \o <<"_">> \o Digits(time) \o <<"_">> \o Digits(j)

\* the records of a batch with the pages numbered on from the run before
BatchRecordsNumberedAcrossRuns(r, pIndex, cks, i, vectors, time) ==
    {[run         |-> r,
      page_index  |-> pIndex + (r - 1),
      chunk_index |-> i + j,
      total_chunks |-> Len(cks),
      document    |-> cks[i + j + 1],
      embedding   |-> vectors[j + 1],
      id          |-> BatchId(pIndex, i + j, time, j)] :
        j \in 0..(Min(i + embeddingBatchSize, Len(cks)) - i - 1)}

\* the records of a batch without the last chunk of the batch
BatchRecordsWithoutLast(r, pIndex, cks, i, vectors, time) ==
    {[run         |-> r,
      page_index  |-> pIndex,
      chunk_index |-> i + j,
      total_chunks |-> Len(cks),
      document    |-> cks[i + j + 1],
      embedding   |-> vectors[j + 1],
      id          |-> BatchId(pIndex, i + j, time, j)] :
        j \in 0..(Min(i + embeddingBatchSize, Len(cks)) - i - 2)}

\* the records of a batch with the vectors taken in reverse order
BatchRecordsReversed(r, pIndex, cks, i, vectors, time) ==
    {[run         |-> r,
      page_index  |-> pIndex,
      chunk_index |-> i + j,
      total_chunks |-> Len(cks),
      document    |-> cks[i + j + 1],
      embedding   |-> vectors[Len(vectors) - j],
      id          |-> BatchId(pIndex, i + j, time, j)] :
        j \in 0..(Min(i + embeddingBatchSize, Len(cks)) - i - 1)}

\* lines 583 and 599-619: the records built for the batch starting at i
BatchRecords(r, pIndex, cks, i, vectors, time) ==
    {[run         |-> r,
      page_index  |-> pIndex,
      chunk_index |-> i + j,
      total_chunks |-> Len(cks),
      document    |-> cks[i + j + 1],
      embedding   |-> vectors[j + 1],
      id          |-> BatchId(pIndex, i + j, time, j)] :
        j \in 0..(Min(i + embeddingBatchSize, Len(cks)) - i - 1)}

\* line 583: chunks.slice(i, i + CONFIG.embeddingBatchSize), as the texts
\* given to generateEmbeddings (a text is identified by its chunk index)
BatchChunks(cks, i) ==
    [j \in 1..(Min(i + embeddingBatchSize, Len(cks)) - i) |->
        TextItem(i + j - 1, cks[i + j].to - cks[i + j].from)]

\* the catch passing the error on
OnBatchErrorRethrow == "rethrow"

\* lines 635-638: what the catch around a batch does with the error
OnBatchError == "continue"

\* the pages crawlWebsite hands over: a page of one chunk, a page of three
\* chunks (one batch, one request) and a PDF of sixteen chunks (two batches,
\* the first sent in sub-batches)
RunPages ==
    {[url |-> Url(PopgCom, "/", ""), content |-> <<Ink(MinContentChars + 1)>>, isPdf |-> FALSE],
     [url |-> Url(PopgCom, "/a", ""), content |-> <<Ink(3000)>>, isPdf |-> FALSE],
     [url |-> Url(PopgCom, "/b.pdf", ""), content |-> <<Ink(21000)>>, isPdf |-> TRUE]}

\* a crawl returns no URL twice (its visited set), and at most MaxRunPages pages
CrawlResults ==
    {pages \in SeqsUpTo(RunPages, MaxRunPages) :
        \A i, j \in 1..Len(pages) : i # j => pages[i].url # pages[j].url}

\* lines 682-715: the connection test and the chunking self-test
RunStart ==
    /\ tPc = "idle"
    /\ \E connected \in BOOLEAN : tPc' = IF connected THEN "crawl" ELSE "failed"
    /\ UNCHANGED <<run, coll, pageIndex, batchStart, totalChunks, itemFailures, priorRecords, addFailures, passedIds, now, trainer, fallbackK, legacyErrors>>
    /\ UNCHANGED <<chunkVars, embedVars, crawlVars, otherPrograms>>

\* the run going on to storeInChromaDB whatever the crawl returned
AfterCrawlUnchecked(pages) == "delete"

\* lines 722-730: no page is fatal, otherwise storeInChromaDB is entered
AfterCrawl(pages) == IF Len(pages) = 0 THEN "failed" ELSE "delete"

\* lines 720-726: crawlWebsite returns its pages; none is fatal
RunCrawl ==
    /\ tPc = "crawl"
    /\ scrapedContent' \in CrawlResults
    /\ tPc' = AfterCrawl(scrapedContent')
    /\ crPc' = "done"
    /\ UNCHANGED <<startUrls, visitedPages, pagesToVisit, fetched, crSkipped, crDelayed>>
    /\ UNCHANGED <<run, coll, pageIndex, batchStart, totalChunks, itemFailures, priorRecords, addFailures, passedIds, now, trainer, fallbackK, legacyErrors>>
    /\ UNCHANGED <<chunkVars, embedVars, otherPrograms>>

\* lines 549-554: the collection is deleted; a rejection is only logged
StoreDelete ==
    /\ tPc = "delete"
    /\ \E fails \in BOOLEAN : coll' = deleteCollection(coll, fails)
    /\ tPc' = "create"
    /\ UNCHANGED <<run, pageIndex, batchStart, totalChunks, itemFailures, priorRecords, addFailures, passedIds, now, trainer, fallbackK, legacyErrors>>
    /\ UNCHANGED <<chunkVars, embedVars, crawlVars, otherPrograms>>

\* the collection obtained with getOrCreateCollection
StoreGetOrCreate ==
    /\ tPc = "create"
    /\ coll' = getOrCreateCollection(coll)[1]
    /\ totalChunks' = 0
    /\ pageIndex' = 0
    /\ tPc' = "page"
    /\ UNCHANGED <<run, batchStart, itemFailures, priorRecords, addFailures, passedIds, now, trainer, fallbackK, legacyErrors>>
    /\ UNCHANGED <<chunkVars, embedVars, crawlVars, otherPrograms>>

\* lines 556-563 and 655-658: the collection is created; a rejection ends the run
StoreCreate ==
    /\ tPc = "create"
    /\ LET created == createCollection(coll)
       IN  IF created = <<>>
           THEN tPc' = "failed" /\ UNCHANGED <<coll, pageIndex, totalChunks>>
           ELSE /\ coll' = created[1]
                /\ totalChunks' = 0
                /\ pageIndex' = 0
                /\ tPc' = "page"
    /\ UNCHANGED <<run, batchStart, itemFailures, priorRecords, addFailures, passedIds, now, trainer, fallbackK, legacyErrors>>
    /\ UNCHANGED <<chunkVars, embedVars, crawlVars, otherPrograms>>

\* lines 566-579 and 645-653: the next page is chunked, or the loop is over
StoreNextPage ==
    /\ tPc = "page"
    /\ IF pageIndex >= Len(scrapedContent)
       THEN /\ tPc' = "done"
            /\ UNCHANGED <<pageIndex, batchStart, text, chunks, cPc>>
       ELSE \E pageChunks \in {splitTextIntoChunks(scrapedContent[pageIndex + 1].content,
                                                    ConfigChunkSize, ConfigChunkOverlap)} :
            /\ text' = scrapedContent[pageIndex + 1].content
            /\ chunks' = pageChunks
            /\ cPc' = "done"
            /\ IF Len(pageChunks) = 0
               THEN /\ pageIndex' = pageIndex + 1
                    /\ UNCHANGED <<tPc, batchStart>>
               ELSE /\ batchStart' = 0
                    /\ tPc' = "batch"
                    /\ UNCHANGED pageIndex
    /\ UNCHANGED <<chunkSize, overlap, start, cArgs, cIter, cForced>>
    /\ UNCHANGED <<run, coll, totalChunks, itemFailures, priorRecords, addFailures, passedIds, now, trainer, fallbackK, legacyErrors>>
    /\ UNCHANGED <<embedVars, crawlVars, otherPrograms>>

\* lines 582-591 and 641-642: generateEmbeddings is called for the next
\* batch, or the page is finished
StoreNextBatch ==
    /\ tPc = "batch"
    /\ IF batchStart >= Len(chunks)
       THEN /\ pageIndex' = pageIndex + 1
            /\ tPc' = "page"
            /\ UNCHANGED embedVars
       ELSE /\ textArray' = BatchChunks(chunks, batchStart)
            /\ gePc' = "call"
            /\ geCalls' = 1
            /\ tPc' = "embedding"
            /\ UNCHANGED <<pageIndex, embeddings, currentBatch, currentBatchChars, geI,
                           geReq, geErrors, geReqs, geItemReqs, geStatus, geResult>>
    /\ UNCHANGED <<run, coll, batchStart, totalChunks, itemFailures, priorRecords, addFailures, passedIds, now, trainer, fallbackK, legacyErrors>>
    /\ UNCHANGED <<chunkVars, crawlVars, otherPrograms>>

\* generateEmbeddings has returned or thrown: its frame is gone
EmbedGone ==
    /\ textArray' = <<>>
    /\ embeddings' = <<>>
    /\ currentBatch' = <<>>
    /\ currentBatchChars' = 0
    /\ geI' = 0
    /\ geReq' = <<>>
    /\ gePc' = "idle"
    /\ geCalls' = 0
    /\ geErrors' = 0
    /\ geReqs' = 0
    /\ geItemReqs' = 0
    /\ geStatus' = 0
    /\ geResult' = <<>>

\* lines 635-639: the error of the batch is caught
CatchBatchError ==
    IF OnBatchError = "continue"
    THEN batchStart' = batchStart + embeddingBatchSize /\ tPc' = "batch"
    ELSE batchStart' = batchStart /\ tPc' = "failed"

\* lines 593-633: the vectors have come back; the batch is added to the
\* collection, and a rejected add is caught like any error of the batch (an
\* add is rejected when the collection is gone, and may be for other reasons)
StoreAdd ==
    /\ tPc = "embedding"
    /\ gePc = "returned"
    /\ LET records == BatchRecords(run, pageIndex, chunks, batchStart, geResult, now)
       IN  /\ passedIds' = passedIds \o [j \in 1..Len(textArray) |->
                                            BatchId(pageIndex, batchStart + j - 1, now, j - 1)]
           /\ \E added \in (IF coll.exists THEN BOOLEAN ELSE {FALSE}) :
                 IF added
                 THEN /\ coll' = [coll EXCEPT !.records = @ \cup records]
                      /\ totalChunks' = totalChunks + Len(textArray)
                      /\ batchStart' = batchStart + embeddingBatchSize
                      /\ tPc' = "batch"
                      /\ UNCHANGED addFailures
                 ELSE /\ CatchBatchError
                      /\ addFailures' = addFailures + 1
                      /\ UNCHANGED <<coll, totalChunks>>
    /\ EmbedGone
    /\ UNCHANGED <<run, pageIndex, itemFailures, priorRecords, now, trainer, fallbackK, legacyErrors>>
    /\ UNCHANGED <<chunkVars, crawlVars, otherPrograms>>

\* lines 591 and 635-639: generateEmbeddings has thrown; the catch of the
\* batch takes the error
StoreEmbedThrown ==
    /\ tPc = "embedding"
    /\ gePc = "thrown"
    /\ CatchBatchError
    /\ itemFailures' = IF geItemReqs > 0 THEN itemFailures + 1 ELSE itemFailures
    /\ EmbedGone
    /\ UNCHANGED <<run, coll, pageIndex, totalChunks, priorRecords, addFailures, passedIds, now, trainer, fallbackK, legacyErrors>>
    /\ UNCHANGED <<chunkVars, crawlVars, otherPrograms>>

\* line 787: the trainer is started again after the first run has ended
NextRun ==
    /\ run = 1
    /\ tPc \in {"done", "failed"}
    /\ run' = 2
    /\ tPc' = "idle"
    /\ pageIndex' = 0
    /\ batchStart' = 0
    /\ totalChunks' = 0
    /\ itemFailures' = 0
    /\ priorRecords' = (coll.records # {})
    /\ addFailures' = 0
    /\ passedIds' = <<>>
    /\ UNCHANGED <<now, trainer, fallbackK, legacyErrors>>
    /\ scrapedContent' = <<>>
    /\ crPc' = "idle"
    /\ text' = <<>>
    /\ chunks' = <<>>
    /\ cPc' = "idle"
    /\ UNCHANGED coll
    /\ UNCHANGED <<chunkSize, overlap, start, cArgs, cIter, cForced>>
    /\ UNCHANGED <<startUrls, visitedPages, pagesToVisit, fetched, crSkipped, crDelayed>>
    /\ UNCHANGED <<embedVars, otherPrograms>>

\* generateEmbeddings running inside storeInChromaDB
RunEmbed ==
    /\ tPc = "embedding"
    /\ GenerateEmbeddings
    /\ geErrors' <= MaxRunApiErrors

TrainAIBot ==
    \/ RunStart
    \/ RunCrawl
    \/ StoreDelete
    \/ StoreCreate
    \/ StoreNextPage
    \/ StoreNextBatch
    \/ RunEmbed
    \/ StoreAdd
    \/ StoreEmbedThrown
    \/ NextRun

-----------------------------------------------------------------------------
(* The trainer of unnamed/part_002: splitTextIntoChunks, and the loop of   *)
(* storeInChromaDB with its per-chunk fallback                             *)

\* CONFIG and the literals of splitTextIntoChunks
legacyChunkSize          == 1000
legacyChunkOverlap       == 100
legacyEmbeddingBatchSize == 8
legacyMinChunkChars      == 50
legacyMaxChunks          == 10000

\* part_002 lines 95-118: the while loop
RECURSIVE LegacySplitLoop(_, _, _, _, _)
LegacySplitLoop(t, cs, ov, st, cks) ==
    CHOOSE result \in
        {IF next.start >= TextLen(t) \/ Len(next.chunks) > legacyMaxChunks
         THEN next.chunks
         ELSE LegacySplitLoop(t, cs, ov, next.start, next.chunks) :
            next \in {LET end       == Min(st + cs, TextLen(t))
                          chunk     == TrimmedSlice(t, st, end)
                          nextStart == end - ov
                      IN  [chunks |-> IF chunk.to - chunk.from > legacyMinChunkChars
                                      THEN Append(cks, chunk) ELSE cks,
                           start  |-> IF nextStart <= st THEN st + (cs \div 2)
                                      ELSE nextStart]}} : TRUE

\* part_002 lines 77-127
legacySplitTextIntoChunks(t, cs, ov) ==
    IF TextLen(t) = 0 THEN <<>>
    ELSE IF cs <= ov THEN LegacySplitLoop(t, legacyChunkSize, legacyChunkOverlap, 0, <<>>)
    ELSE LegacySplitLoop(t, cs, ov, 0, <<>>)

\* part_002 line 410: chunks.slice(i, i + CONFIG.embeddingBatchSize)
LegacyBatchChunks(cks, i) ==
    [j \in 1..(Min(i + legacyEmbeddingBatchSize, Len(cks)) - i) |->
        TextItem(i + j - 1, cks[i + j].to - cks[i + j].from)]

\* part_002 line 509: `page_${pageIndex}_chunk_${chunkIndex}_${Date.now()}_individual`
IndividualId(pIndex, chunkIndex, time) ==
    <<"page_">> \o Digits(pIndex) \o <<"_chunk_">> \o Digits(chunkIndex)
        \o <<"_">> \o Digits(time) \o <<"_individual">>

\* part_002 lines 433-449: the records built for the batch starting at i
LegacyBatchRecords(r, pIndex, cks, i, vectors, time) ==
    {[run         |-> r,
      page_index  |-> pIndex,
      chunk_index |-> i + j,
      total_chunks |-> Len(cks),
      document    |-> cks[i + j + 1],
      embedding   |-> vectors[j + 1],
      id          |-> BatchId(pIndex, i + j, time, j)] :
        j \in 0..(Min(i + legacyEmbeddingBatchSize, Len(cks)) - i - 1)}

\* the record of the fallback numbered by the chunk's place in its batch
IndividualRecordIndexedInBatch(r, pIndex, cks, chunkIndex, vectors, time) ==
    [run         |-> r,
     page_index  |-> pIndex,
     chunk_index |-> chunkIndex % legacyEmbeddingBatchSize,
     total_chunks |-> Len(cks),
     document    |-> cks[chunkIndex + 1],
     embedding   |-> vectors[1],
     id          |-> IndividualId(pIndex, chunkIndex, time)]

\* part_002 lines 498-510: the record of one chunk in the fallback
IndividualRecord(r, pIndex, cks, chunkIndex, vectors, time) ==
    [run         |-> r,
     page_index  |-> pIndex,
     chunk_index |-> chunkIndex,
     total_chunks |-> Len(cks),
     document    |-> cks[chunkIndex + 1],
     embedding   |-> vectors[1],
     id          |-> IndividualId(pIndex, chunkIndex, time)]

\* the pages the legacy crawl hands over: a page of one chunk, a page of
\* four chunks and a page of nine chunks (two batches)
LegacyPages ==
    {[url |-> Url(PopgCom, "/", ""), content |-> <<Ink(MinContentChars + 1)>>, isPdf |-> FALSE],
     [url |-> Url(PopgCom, "/a", ""), content |-> <<Ink(3000)>>, isPdf |-> FALSE],
     [url |-> Url(PopgCom, "/c", ""), content |-> <<Ink(7500)>>, isPdf |-> FALSE]}

\* the crawl results tried where the ids are looked at: one page and two
\* pages, of one batch and of two batches
OnePageOrTwo(pages) ==
    {list \in SeqsUpTo(pages, 2) :
        /\ Len(list) > 0
        /\ \A i, j \in 1..Len(list) : i # j => list[i].url # list[j].url
        /\ Len(list) = 2 => TextLen(list[1].content) > TextLen(list[2].content)}

\* a request of the legacy run may fail while failures are left to try
LegacyMayFail == legacyErrors < MaxLegacyErrors

\* part_002 lines 372-394 and 529-538: the next page is chunked, or the loop is over
LegacyNextPage ==
    /\ trainer = "legacy"
    /\ tPc = "page"
    /\ IF pageIndex >= Len(scrapedContent)
       THEN /\ tPc' = "done"
            /\ UNCHANGED <<pageIndex, batchStart, text, chunks, cPc>>
       ELSE \E pageChunks \in {legacySplitTextIntoChunks(scrapedContent[pageIndex + 1].content,
                                                          legacyChunkSize, legacyChunkOverlap)} :
            /\ text' = scrapedContent[pageIndex + 1].content
            /\ chunks' = pageChunks
            /\ cPc' = "done"
            /\ IF Len(pageChunks) = 0
               THEN /\ pageIndex' = pageIndex + 1
                    /\ UNCHANGED <<tPc, batchStart>>
               ELSE /\ batchStart' = 0
                    /\ tPc' = "batch"
                    /\ UNCHANGED pageIndex
    /\ UNCHANGED <<chunkSize, overlap, start, cArgs, cIter, cForced>>
    /\ UNCHANGED <<run, coll, totalChunks, itemFailures, priorRecords, addFailures, passedIds,
                   now, trainer, fallbackK, legacyErrors>>
    /\ UNCHANGED <<embedVars, crawlVars, otherPrograms>>

\* part_002 lines 409-421: generateEmbeddings is called for the next batch,
\* or the page is finished
LegacyNextBatch ==
    /\ trainer = "legacy"
    /\ tPc = "batch"
    /\ IF batchStart >= Len(chunks)
       THEN /\ pageIndex' = pageIndex + 1
            /\ tPc' = "page"
            /\ UNCHANGED embedVars
       ELSE /\ textArray' = LegacyBatchChunks(chunks, batchStart)
            /\ gePc' = "call"
            /\ geCalls' = 1
            /\ tPc' = "embedding"
            /\ UNCHANGED <<pageIndex, embeddings, currentBatch, currentBatchChars, geI,
                           geReq, geErrors, geReqs, geItemReqs, geStatus, geResult>>
    /\ UNCHANGED <<run, coll, batchStart, totalChunks, itemFailures, priorRecords, addFailures,
                   passedIds, now, trainer, fallbackK, legacyErrors>>
    /\ UNCHANGED <<chunkVars, crawlVars, otherPrograms>>

\* part_002 lines 129-203: generateEmbeddings of the legacy trainer, taken
\* as a whole: it returns one vector for each text, in order, or it throws
LegacyGenerateEmbeddings ==
    /\ trainer = "legacy"
    /\ gePc = "call"
    /\ \/ /\ gePc' = "returned"
          /\ geResult' = ApiData(textArray, geCalls)
          /\ UNCHANGED legacyErrors
       \/ /\ LegacyMayFail
          /\ gePc' = "thrown"
          /\ legacyErrors' = legacyErrors + 1
          /\ UNCHANGED geResult
    /\ UNCHANGED <<textArray, embeddings, currentBatch, currentBatchChars, geI, geReq,
                   geCalls, geErrors, geReqs, geItemReqs, geStatus>>
    /\ UNCHANGED <<run, tPc, coll, pageIndex, batchStart, totalChunks, itemFailures,
                   priorRecords, addFailures, passedIds, now, trainer, fallbackK>>
    /\ UNCHANGED <<chunkVars, crawlVars, otherPrograms>>

\* part_002 lines 423-468: the batch is added to the collection; a rejected
\* add starts the per-chunk fallback
LegacyAdd ==
    /\ trainer = "legacy"
    /\ tPc = "embedding"
    /\ gePc = "returned"
    /\ passedIds' = passedIds \o [j \in 1..Len(textArray) |->
                                    BatchId(pageIndex, batchStart + j - 1, now, j - 1)]
    /\ \/ /\ coll' = [coll EXCEPT !.records = @ \cup
                        LegacyBatchRecords(run, pageIndex, chunks, batchStart, geResult, now)]
          /\ totalChunks' = totalChunks + Len(textArray)
          /\ batchStart' = batchStart + legacyEmbeddingBatchSize
          /\ tPc' = "batch"
          /\ UNCHANGED <<addFailures, fallbackK, legacyErrors>>
       \/ /\ LegacyMayFail
          /\ legacyErrors' = legacyErrors + 1
          /\ addFailures' = addFailures + 1
          /\ fallbackK' = 0
          /\ tPc' = "fallback"
          /\ UNCHANGED <<coll, totalChunks, batchStart>>
    /\ EmbedGone
    /\ UNCHANGED <<run, pageIndex, itemFailures, priorRecords, now, trainer>>
    /\ UNCHANGED <<chunkVars, crawlVars, otherPrograms>>

\* part_002 lines 425 and 470-481: generateEmbeddings has thrown; the catch
\* of the batch starts the per-chunk fallback
LegacyEmbedThrown ==
    /\ trainer = "legacy"
    /\ tPc = "embedding"
    /\ gePc = "thrown"
    /\ fallbackK' = 0
    /\ tPc' = "fallback"
    /\ EmbedGone
    /\ UNCHANGED <<run, coll, pageIndex, batchStart, totalChunks, itemFailures, priorRecords,
                   addFailures, passedIds, now, trainer, legacyErrors>>
    /\ UNCHANGED <<chunkVars, crawlVars, otherPrograms>>

\* part_002 lines 483-492: generateEmbeddings is called for the next chunk of
\* the failed batch, or the fallback is over
LegacyFallbackNext ==
    /\ trainer = "legacy"
    /\ tPc = "fallback"
    /\ IF fallbackK >= Len(LegacyBatchChunks(chunks, batchStart))
       THEN /\ batchStart' = batchStart + legacyEmbeddingBatchSize
            /\ tPc' = "batch"
            /\ UNCHANGED embedVars
       ELSE /\ textArray' = <<LegacyBatchChunks(chunks, batchStart)[fallbackK + 1]>>
            /\ gePc' = "call"
            /\ geCalls' = 1
            /\ tPc' = "individual"
            /\ UNCHANGED <<batchStart, embeddings, currentBatch, currentBatchChars, geI,
                           geReq, geErrors, geReqs, geItemReqs, geStatus, geResult>>
    /\ UNCHANGED <<run, coll, pageIndex, totalChunks, itemFailures, priorRecords, addFailures,
                   passedIds, now, trainer, fallbackK, legacyErrors>>
    /\ UNCHANGED <<chunkVars, crawlVars, otherPrograms>>

\* part_002 lines 494-521: the chunk is added on its own; a rejected add is
\* caught and the fallback goes on with the next chunk
LegacyIndividualAdd ==
    /\ trainer = "legacy"
    /\ tPc = "individual"
    /\ gePc = "returned"
    /\ passedIds' = Append(passedIds, IndividualId(pageIndex, batchStart + fallbackK, now))
    /\ \/ /\ coll' = [coll EXCEPT !.records = @ \cup
                        {IndividualRecord(run, pageIndex, chunks, batchStart + fallbackK,
                                          geResult, now)}]
          /\ totalChunks' = totalChunks + 1
          /\ UNCHANGED <<addFailures, legacyErrors>>
       \/ /\ LegacyMayFail
          /\ legacyErrors' = legacyErrors + 1
          /\ addFailures' = addFailures + 1
          /\ UNCHANGED <<coll, totalChunks>>
    /\ fallbackK' = fallbackK + 1
    /\ tPc' = "fallback"
    /\ EmbedGone
    /\ UNCHANGED <<run, pageIndex, batchStart, itemFailures, priorRecords, now, trainer>>
    /\ UNCHANGED <<chunkVars, crawlVars, otherPrograms>>

\* part_002 lines 496 and 518-521: generateEmbeddings has thrown for the
\* chunk; the fallback goes on with the next chunk
LegacyIndividualThrown ==
    /\ trainer = "legacy"
    /\ tPc = "individual"
    /\ gePc = "thrown"
    /\ fallbackK' = fallbackK + 1
    /\ tPc' = "fallback"
    /\ EmbedGone
    /\ UNCHANGED <<run, coll, pageIndex, batchStart, totalChunks, itemFailures, priorRecords,
                   addFailures, passedIds, now, trainer, legacyErrors>>
    /\ UNCHANGED <<chunkVars, crawlVars, otherPrograms>>

\* a millisecond passes while the run waits for generateEmbeddings (the
\* clock is read only where the ids are built, after the call has returned)
Tick ==
    /\ tPc \in {"embedding", "individual"}
    /\ gePc = "call"
    /\ now < MaxClock
    /\ now' = now + 1
    /\ UNCHANGED <<run, tPc, coll, pageIndex, batchStart, totalChunks, itemFailures,
                   priorRecords, addFailures, passedIds, trainer, fallbackK, legacyErrors>>
    /\ UNCHANGED <<chunkVars, embedVars, crawlVars, otherPrograms>>

\* the loop of storeInChromaDB in trainer-optimized.js
OptimizedStore ==
    /\ trainer = "optimized"
    /\ \/ StoreNextPage
       \/ StoreNextBatch
       \/ RunEmbed
       \/ StoreAdd
       \/ StoreEmbedThrown

\* the loop of storeInChromaDB in unnamed/part_002
LegacyStore ==
    \/ LegacyNextPage
    \/ LegacyNextBatch
    \/ LegacyGenerateEmbeddings
    \/ LegacyAdd
    \/ LegacyEmbedThrown
    \/ LegacyFallbackNext
    \/ LegacyIndividualAdd
    \/ LegacyIndividualThrown

StorePages == OptimizedStore \/ LegacyStore \/ Tick

-----------------------------------------------------------------------------
(* splitTextIntoChunks of trainer.js *)

\* CONFIG of trainer.js
simpleChunkSize    == 1200
simpleChunkOverlap == 200
simpleMinChunkChars == 50
simpleMinContentChars == 100
simpleMaxContentSize == 20000

\* text.slice(s, e): a negative s counts from the end of the text
SliceFrom(t, s) == IF s < 0 THEN Max(TextLen(t) + s, 0) ELSE Min(s, TextLen(t))

\* trainer.js lines 81-91: one test of the while condition and, when it
\* passes, one iteration: the window is pushed when its trimmed length is
\* over 50, the cursor is set to end - overlap, and the loop is only left
\* when the cursor is at or past the end of the text
SimpleSplitIterate ==
    /\ trainer = "trainer.js"
    /\ cPc = "loop"
    /\ cIter < MaxSimpleIters
    /\ IF start < TextLen(text)
       THEN LET end   == Min(start + chunkSize, TextLen(text))
                chunk == TrimmedSlice(text, SliceFrom(text, start), end)
            IN  /\ chunks' = IF chunk.to - chunk.from > simpleMinChunkChars
                             THEN Append(chunks, chunk) ELSE chunks
                /\ start' = end - overlap
                /\ cPc' = IF start' >= TextLen(text) THEN "done" ELSE "loop"
                /\ cIter' = cIter + 1
       ELSE /\ cPc' = "done"
            /\ UNCHANGED <<chunks, start, cIter>>
    /\ UNCHANGED <<text, chunkSize, overlap, cArgs, cForced>>
    /\ UNCHANGED otherThanChunk

-----------------------------------------------------------------------------
(* A second run of the trainer against the same ChromaDB: the requests its *)
(* storeInChromaDB sends for the collection popg_content, one step each    *)

\* the run number the records of the second process carry
PeerRun == 2

\* the pages the second process has crawled: two pages of one batch each
PeerPages ==
    <<[url |-> Url(PopgCom, "/a", ""), content |-> <<Ink(3000)>>, isPdf |-> FALSE],
      [url |-> Url(PopgCom, "/", ""), content |-> <<Ink(MinContentChars + 1)>>, isPdf |-> FALSE]>>

\* lines 566-627: the records of its batches, in the order of its adds
PeerBatches ==
    [p \in 1..Len(PeerPages) |->
        LET cks == splitTextIntoChunks(PeerPages[p].content, ConfigChunkSize, ConfigChunkOverlap)
        IN  BatchRecords(PeerRun, p - 1, cks, 0, ApiData(BatchChunks(cks, 0), 1), 0)]

\* the run is between the entry of storeInChromaDB and its return
InStore(pc) == pc \in {"delete", "create", "page", "batch", "embedding"}

\* a run waiting until no other run is inside storeInChromaDB
MayEnterStoreWhenFree(otherPc) == ~InStore(otherPc)

\* lines 541-549: nothing is tested or taken between the entry of
\* storeInChromaDB and the request deleting the collection
MayEnterStore(otherPc) == TRUE

\* line 541: storeInChromaDB is entered
PeerStart ==
    /\ peerPc = "idle"
    /\ MayEnterStore(tPc)
    /\ peerPc' = "delete"
    /\ overlapped' = InStore(tPc)
    /\ UNCHANGED <<peerBatch, peerStored>>
    /\ UNCHANGED <<trainerVars, widgetVars, rerunVars, chatVars>>

\* lines 549-554: the collection is deleted; a rejection is only logged
PeerDelete ==
    /\ peerPc = "delete"
    /\ \E fails \in BOOLEAN : coll' = deleteCollection(coll, fails)
    /\ peerPc' = "create"
    /\ UNCHANGED <<peerBatch, peerStored, overlapped>>
    /\ UNCHANGED <<run, tPc, pageIndex, batchStart, totalChunks, itemFailures, priorRecords,
                   addFailures, passedIds, now, trainer, fallbackK, legacyErrors>>
    /\ UNCHANGED <<chunkVars, embedVars, crawlVars, widgetVars, rerunVars, chatVars>>

\* lines 556-563 and 655-658: the collection is created; a rejection ends the run
PeerCreate ==
    /\ peerPc = "create"
    /\ LET created == createCollection(coll)
       IN  IF created = <<>>
           THEN peerPc' = "failed" /\ UNCHANGED coll
           ELSE coll' = created[1] /\ peerPc' = "add"
    /\ UNCHANGED <<peerBatch, peerStored, overlapped>>
    /\ UNCHANGED <<run, tPc, pageIndex, batchStart, totalChunks, itemFailures, priorRecords,
                   addFailures, passedIds, now, trainer, fallbackK, legacyErrors>>
    /\ UNCHANGED <<chunkVars, embedVars, crawlVars, widgetVars, rerunVars, chatVars>>

\* lines 582-638: the next batch is embedded and passed to collection.add; a
\* rejected add is caught and the loop goes on
PeerAdd ==
    /\ peerPc = "add"
    /\ peerBatch < Len(PeerBatches)
    /\ \E added \in (IF coll.exists THEN BOOLEAN ELSE {FALSE}) :
          IF added
          THEN /\ coll' = [coll EXCEPT !.records = @ \cup PeerBatches[peerBatch + 1]]
               /\ peerStored' = peerStored + Cardinality(PeerBatches[peerBatch + 1])
          ELSE UNCHANGED <<coll, peerStored>>
    /\ peerBatch' = peerBatch + 1
    /\ UNCHANGED <<peerPc, overlapped>>
    /\ UNCHANGED <<run, tPc, pageIndex, batchStart, totalChunks, itemFailures, priorRecords,
                   addFailures, passedIds, now, trainer, fallbackK, legacyErrors>>
    /\ UNCHANGED <<chunkVars, embedVars, crawlVars, widgetVars, rerunVars, chatVars>>

\* lines 645-653: the page loop is over
PeerReturn ==
    /\ peerPc = "add"
    /\ peerBatch = Len(PeerBatches)
    /\ peerPc' = "done"
    /\ UNCHANGED <<peerBatch, peerStored, overlapped>>
    /\ UNCHANGED <<trainerVars, widgetVars, rerunVars, chatVars>>

Peer == PeerStart \/ PeerDelete \/ PeerCreate \/ PeerAdd \/ PeerReturn

\* lines 541-659: storeInChromaDB of the first process
StoreInChromaDB ==
    StoreDelete \/ StoreCreate \/ StoreNextPage \/ StoreNextBatch \/ RunEmbed
        \/ StoreAdd \/ StoreEmbedThrown

TwoRuns == StoreInChromaDB \/ Peer

-----------------------------------------------------------------------------
(* trainAIBot run a second time over the same pages *)

\* the records of a batch in the order of the arrays passed to collection.add
BatchRecordList(records, i) ==
    [j \in 1..Cardinality(records) |-> CHOOSE rec \in records : rec.chunk_index = i + j - 1]

\* lines 593-633, with the batch entered in the log: added, or rejected by
\* collection.add
RerunAdd ==
    /\ tPc = "embedding"
    /\ gePc = "returned"
    /\ LET records == BatchRecords(run, pageIndex, chunks, batchStart, geResult, now)
       IN  /\ passedIds' = passedIds \o [j \in 1..Len(textArray) |->
                                            BatchId(pageIndex, batchStart + j - 1, now, j - 1)]
           /\ \E added \in (IF coll.exists THEN BOOLEAN ELSE {FALSE}) :
                 IF added
                 THEN /\ coll' = [coll EXCEPT !.records = @ \cup records]
                      /\ totalChunks' = totalChunks + Len(textArray)
                      /\ batchStart' = batchStart + embeddingBatchSize
                      /\ tPc' = "batch"
                      /\ batchLog' = Append(batchLog,
                                            [outcome |-> "added",
                                             records |-> BatchRecordList(records, batchStart)])
                      /\ UNCHANGED addFailures
                 ELSE /\ CatchBatchError
                      /\ addFailures' = addFailures + 1
                      /\ batchLog' = Append(batchLog,
                                            [outcome |-> "add rejected", records |-> <<>>])
                      /\ UNCHANGED <<coll, totalChunks>>
    /\ EmbedGone
    /\ UNCHANGED <<run, pageIndex, itemFailures, priorRecords, now, trainer, fallbackK, legacyErrors>>
    /\ UNCHANGED <<chunkVars, crawlVars, widgetVars, peerVars, firstBatchLog, chatVars>>

\* lines 591 and 635-639, with the batch entered in the log: no vectors
RerunEmbedThrown ==
    /\ tPc = "embedding"
    /\ gePc = "thrown"
    /\ CatchBatchError
    /\ itemFailures' = IF geItemReqs > 0 THEN itemFailures + 1 ELSE itemFailures
    /\ batchLog' = Append(batchLog, [outcome |-> "embeddings thrown", records |-> <<>>])
    /\ EmbedGone
    /\ UNCHANGED <<run, coll, pageIndex, totalChunks, priorRecords, addFailures, passedIds, now, trainer, fallbackK, legacyErrors>>
    /\ UNCHANGED <<chunkVars, crawlVars, widgetVars, peerVars, firstBatchLog, chatVars>>

\* line 787 and lines 720-729: the trainer is started again at a later time,
\* its crawl returns the pages the first run's crawl returned, and
\* storeInChromaDB is entered
RerunStart ==
    /\ run = 1
    /\ tPc = "done"
    /\ run' = 2
    /\ tPc' = "delete"
    /\ pageIndex' = 0
    /\ batchStart' = 0
    /\ totalChunks' = 0
    /\ itemFailures' = 0
    /\ priorRecords' = (coll.records # {})
    /\ addFailures' = 0
    /\ passedIds' = <<>>
    /\ text' = <<>>
    /\ chunks' = <<>>
    /\ cPc' = "idle"
    /\ firstBatchLog' = batchLog
    /\ batchLog' = <<>>
    /\ now < MaxClock
    /\ now' = now + 1
    /\ UNCHANGED <<coll, trainer, fallbackK, legacyErrors>>
    /\ UNCHANGED <<chunkSize, overlap, start, cArgs, cIter, cForced>>
    /\ UNCHANGED <<embedVars, crawlVars, widgetVars, peerVars, chatVars>>

\* generateEmbeddings running inside storeInChromaDB
RerunEmbed ==
    /\ tPc = "embedding"
    /\ GenerateEmbeddings
    /\ geErrors' <= MaxRerunApiErrors

Rerun ==
    \/ StoreDelete
    \/ StoreCreate
    \/ StoreNextPage
    \/ StoreNextBatch
    \/ RerunEmbed
    \/ RerunAdd
    \/ RerunEmbedThrown
    \/ RerunStart

-----------------------------------------------------------------------------
(* The chat widget (public/embed.js) *)

\* clicks and API calls followed in one page
MaxWidgetCalls == 3

\* line 229: open() clicks when the toggle has no class "open"
OpenClicks(created, classes) == created /\ "open" \notin classes

\* line 235: close() clicks when the toggle has the class "open"
CloseClicks(created, classes) == created /\ "open" \in classes

\* line 241: toggle() clicks when the toggle exists
ToggleClicks(created, classes) == created

\* lines 122-143: the click handler of the toggle button; it shows or hides
\* the container and flips isOpen, and leaves the button's classes alone
ClickHandler ==
    /\ containerScale' = IF isOpen THEN 0 ELSE 1
    /\ isOpen' = ~isOpen
    /\ UNCHANGED <<widgetCreated, toggleClasses>>

Logged(op) == widgetLog' = Append(widgetLog, [op |-> op, loaded |-> widgetCreated])

\* lines 39-174 and 214-220: createWidget, run on DOMContentLoaded when the
\* script was loaded before the document was parsed
CreateWidget ==
    /\ ~widgetCreated
    /\ widgetCreated' = TRUE
    /\ isOpen' = FALSE
    /\ containerScale' = 0
    /\ toggleClasses' = {}
    /\ UNCHANGED widgetLog
    /\ UNCHANGED <<trainerVars, peerVars, rerunVars, chatVars>>

\* the visitor clicks the toggle button
UserClick ==
    /\ widgetCreated
    /\ Len(widgetLog) < MaxWidgetCalls
    /\ ClickHandler
    /\ Logged("click")
    /\ UNCHANGED <<trainerVars, peerVars, rerunVars, chatVars>>

\* an API function has found nothing to click
NoClick == UNCHANGED <<widgetCreated, isOpen, containerScale, toggleClasses>>

\* lines 227-232: window.popgWidget.open
ApiOpen ==
    /\ Len(widgetLog) < MaxWidgetCalls
    /\ IF OpenClicks(widgetCreated, toggleClasses) THEN ClickHandler ELSE NoClick
    /\ Logged("open")
    /\ UNCHANGED <<trainerVars, peerVars, rerunVars, chatVars>>

\* lines 233-238: window.popgWidget.close
ApiClose ==
    /\ Len(widgetLog) < MaxWidgetCalls
    /\ IF CloseClicks(widgetCreated, toggleClasses) THEN ClickHandler ELSE NoClick
    /\ Logged("close")
    /\ UNCHANGED <<trainerVars, peerVars, rerunVars, chatVars>>

\* lines 239-244: window.popgWidget.toggle
ApiToggle ==
    /\ Len(widgetLog) < MaxWidgetCalls
    /\ IF ToggleClicks(widgetCreated, toggleClasses) THEN ClickHandler ELSE NoClick
    /\ Logged("toggle")
    /\ UNCHANGED <<trainerVars, peerVars, rerunVars, chatVars>>

Widget == CreateWidget \/ UserClick \/ ApiOpen \/ ApiClose \/ ApiToggle

-----------------------------------------------------------------------------
(* The chat widget (public/widget.js) *)

MaxChatCalls == 4

\* a string as the sequence of its characters; the values of the input
\* field, of a quick-action button's data-message and of sendText's argument
ChatTexts == {<<>>, <<" ">>, <<"h", "i">>, <<" ", "h", "i", " ">>}

\* String.prototype.trim
RECURSIVE Trim(_)
Trim(s) ==
    IF s = <<>> THEN s
    ELSE IF Head(s) = " " THEN Trim(Tail(s))
    ELSE IF s[Len(s)] = " " THEN Trim(SubSeq(s, 1, Len(s) - 1))
    ELSE s

\* the sequence without its element i
RemoveAt(s, i) == SubSeq(s, 1, i - 1) \o SubSeq(s, i + 1, Len(s))

\* lines 410-416: sendBtn.disabled as updateSendButton sets it
UpdatedSendButton(value, loading) == ~(Len(Trim(value)) > 0 /\ ~loading)

\* the test of sendMessage without the look at isLoading
SendMessageReturnsEarlyOnBlank(message) == Trim(message) = <<>>

\* line 206: if (!message.trim() || this.isLoading) return
SendMessageReturnsEarly(message) == Trim(message) = <<>> \/ isLoading

\* line 194: if (!message || this.isLoading) return, message being the
\* trimmed value of the input
HandleSubmitReturnsEarly == Trim(messageInput) = <<>> \/ isLoading

\* lines 360-376 (addMessage): the message is tracked in the conversation
AddMessage(history, content, sender) ==
    Append(history, [content |-> content, sender |-> sender])

\* lines 205-229: sendMessage up to its first await; value and disabled are
\* the input's value and the button's state when it is called
SendMessage(message, value, disabled) ==
    /\ messageInput' = value
    /\ IF SendMessageReturnsEarly(message)
       THEN /\ sendBtnDisabled' = disabled
            /\ chatIgnored' = chatIgnored + (IF isLoading THEN 1 ELSE 0)
            /\ UNCHANGED <<isLoading, welcomeShown, typingShown, conversationHistory,
                           chatRequests, chatSent>>
       ELSE /\ welcomeShown' = FALSE
            /\ conversationHistory' = AddMessage(conversationHistory, message, "user")
            /\ typingShown' = TRUE
            /\ isLoading' = TRUE
            /\ sendBtnDisabled' = UpdatedSendButton(value, TRUE)
            /\ chatRequests' = Append(chatRequests, [message |-> message, phase |-> "fetch"])
            /\ chatSent' = chatSent + 1
            /\ UNCHANGED chatIgnored
    /\ UNCHANGED <<errorShown, errorTimers>>

\* lines 73, 76-81 and 189-203: the form is submitted, or Enter is pressed
\* in the input without Shift; either way handleSubmit is called
HandleSubmit ==
    /\ chatCalls < MaxChatCalls
    /\ chatCalls' = chatCalls + 1
    /\ IF HandleSubmitReturnsEarly
       THEN /\ chatIgnored' = chatIgnored + (IF isLoading THEN 1 ELSE 0)
            /\ UNCHANGED <<isLoading, messageInput, sendBtnDisabled, welcomeShown,
                           typingShown, conversationHistory, chatRequests, chatSent,
                           errorShown, errorTimers>>
       ELSE SendMessage(Trim(messageInput), <<>>, UpdatedSendButton(<<>>, isLoading))
    /\ UNCHANGED <<trainerVars, widgetVars, peerVars, rerunVars>>

\* line 83: the visitor edits the input
ChatInput ==
    /\ \E value \in ChatTexts \ {messageInput} :
          /\ messageInput' = value
          /\ sendBtnDisabled' = UpdatedSendButton(value, isLoading)
    /\ UNCHANGED <<isLoading, welcomeShown, typingShown, conversationHistory, chatRequests,
                   chatSent, chatIgnored, chatCalls, errorShown, errorTimers>>
    /\ UNCHANGED <<trainerVars, widgetVars, peerVars, rerunVars>>

\* lines 86-93: a quick-action button is clicked
ChatQuickAction ==
    /\ chatCalls < MaxChatCalls
    /\ chatCalls' = chatCalls + 1
    /\ \E message \in ChatTexts :
          IF message # <<>>
          THEN SendMessage(message, messageInput, sendBtnDisabled)
          ELSE UNCHANGED <<isLoading, messageInput, sendBtnDisabled, welcomeShown,
                           typingShown, conversationHistory, chatRequests, chatSent,
                           chatIgnored, errorShown, errorTimers>>
    /\ UNCHANGED <<trainerVars, widgetVars, peerVars, rerunVars>>

\* lines 463-467: sendText of the public API
ChatSendText ==
    /\ chatCalls < MaxChatCalls
    /\ chatCalls' = chatCalls + 1
    /\ \E message \in ChatTexts :
          IF message # <<>> /\ Trim(message) # <<>>
          THEN SendMessage(Trim(message), messageInput, sendBtnDisabled)
          ELSE UNCHANGED <<isLoading, messageInput, sendBtnDisabled, welcomeShown,
                           typingShown, conversationHistory, chatRequests, chatSent,
                           chatIgnored, errorShown, errorTimers>>
    /\ UNCHANGED <<trainerVars, widgetVars, peerVars, rerunVars>>

\* lines 273-276: the finally block, request i being over
ChatFinally(i) ==
    /\ isLoading' = FALSE
    /\ sendBtnDisabled' = UpdatedSendButton(messageInput, FALSE)
    /\ chatRequests' = RemoveAt(chatRequests, i)
    /\ UNCHANGED <<messageInput, welcomeShown, chatSent, chatIgnored, chatCalls>>
    /\ UNCHANGED <<trainerVars, widgetVars, peerVars, rerunVars>>

\* lines 243-276: the catch block followed by the finally block
ChatCatch(i) ==
    /\ typingShown' = FALSE
    /\ errorShown' = TRUE
    /\ errorTimers' = errorTimers + 1
    /\ conversationHistory' = AddMessage(conversationHistory, <<"error">>, "bot")
    /\ ChatFinally(i)

\* lines 223-233: fetch resolves; a status that is not ok is thrown
ChatFetchResolved ==
    \E i \in 1..Len(chatRequests), ok \in BOOLEAN :
        /\ chatRequests[i].phase = "fetch"
        /\ IF ok
           THEN /\ chatRequests' = [chatRequests EXCEPT ![i].phase = "json"]
                /\ UNCHANGED <<isLoading, messageInput, sendBtnDisabled, welcomeShown,
                               typingShown, conversationHistory, chatSent, chatIgnored,
                               chatCalls, errorShown, errorTimers>>
                /\ UNCHANGED <<trainerVars, widgetVars, peerVars, rerunVars>>
           ELSE ChatCatch(i)

\* lines 223 and 243: fetch rejects
ChatFetchRejected ==
    \E i \in 1..Len(chatRequests) :
        /\ chatRequests[i].phase = "fetch"
        /\ ChatCatch(i)

\* lines 235-241 and 273-276: the body is parsed and the answer is shown
ChatJsonResolved ==
    \E i \in 1..Len(chatRequests) :
        /\ chatRequests[i].phase = "json"
        /\ typingShown' = FALSE
        /\ conversationHistory' = AddMessage(conversationHistory, <<"response">>, "bot")
        /\ UNCHANGED <<errorShown, errorTimers>>
        /\ ChatFinally(i)

\* lines 235 and 243: response.json() rejects
ChatJsonRejected ==
    \E i \in 1..Len(chatRequests) :
        /\ chatRequests[i].phase = "json"
        /\ ChatCatch(i)

\* lines 445-447: a timer of showError hides the toast
ChatErrorTimeout ==
    /\ errorTimers > 0
    /\ errorTimers' = errorTimers - 1
    /\ errorShown' = FALSE
    /\ UNCHANGED <<isLoading, messageInput, sendBtnDisabled, welcomeShown, typingShown,
                   conversationHistory, chatRequests, chatSent, chatIgnored, chatCalls>>
    /\ UNCHANGED <<trainerVars, widgetVars, peerVars, rerunVars>>

Chat ==
    \/ HandleSubmit
    \/ ChatInput
    \/ ChatQuickAction
    \/ ChatSendText
    \/ ChatFetchResolved
    \/ ChatFetchRejected
    \/ ChatJsonResolved
    \/ ChatJsonRejected
    \/ ChatErrorTimeout

-----------------------------------------------------------------------------
(* Inputs of the chunker *)

\* text lengths around the thresholds of the code
ChunkTextLens ==
    (0..(Delta + 1)) \cup Around(MinChunkChars) \cup Around(250) \cup {300, 520}
        \cup Around(DefaultChunkSize) \cup {1520, 1590}
        \cup Around(MaxChunks + MinChunkChars + 1) \cup {1200}

\* texts without whitespace, and texts with whitespace at the places where a
\* window begins or ends
ChunkTexts ==
    {<<Ink(n)>> : n \in ChunkTextLens \ {0}} \cup {<<>>}
        \cup {<<Blank(n)>> : n \in {1, 200}}
        \cup {<<Ink(a), Blank(b), Ink(c)>> : a \in {150, 1340}, b \in {1, 200}, c \in {50, 120}}
        \cup {<<Blank(2), Ink(300), Blank(3)>>}
        \* words separated by one space that falls on the edge of a window
        \cup {<<Ink(249), Blank(1), Ink(200)>>}

\* (chunkSize, overlap) pairs: chunkSize > 0, any overlap
SmallChunkArgs == {<<cs, ov>> : cs \in 1..(3 + Delta), ov \in (-1)..(4 + Delta)}

ChunkArgs ==
    {<<MinChunkChars + 1, ov>> : ov \in {0, 50, MinChunkChars}}
        \cup {<<250, ov>> : ov \in {-10, 0, 50, 120, 249, 250, 300}}
        \cup {<<DefaultChunkSize, ov>> : ov \in {50, DefaultOverlap, DefaultChunkSize - 1}}

\* the calls tried: every text with every pair of ChunkArgs, and the texts of
\* up to 520 characters with the pairs of very small chunkSize too
ChunkCalls ==
    (ChunkTexts \X ChunkArgs)
        \cup ({t \in ChunkTexts : TextLen(t) <= 520} \X SmallChunkArgs)

\* the chunker before it is called
\* no second trainer process has been started
PeerIdle ==
    /\ peerPc = "idle"
    /\ peerBatch = 0
    /\ peerStored = 0
    /\ overlapped = FALSE

\* widget.js lines 3-23 and 102-106: the chat widget after its constructor
ChatIdle ==
    /\ isLoading = FALSE
    /\ messageInput = <<>>
    /\ sendBtnDisabled = TRUE
    /\ welcomeShown = TRUE
    /\ typingShown = FALSE
    /\ conversationHistory = <<>>
    /\ errorShown = FALSE
    /\ errorTimers = 0
    /\ chatRequests = <<>>
    /\ chatSent = 0
    /\ chatIgnored = 0
    /\ chatCalls = 0

\* no batch has been logged
RerunIdle ==
    /\ batchLog = <<>>
    /\ firstBatchLog = <<>>

\* embed.js has not been loaded into a page
WidgetIdle ==
    /\ widgetCreated = FALSE
    /\ isOpen = FALSE
    /\ containerScale = 0
    /\ toggleClasses = {}
    /\ widgetLog = <<>>

ChunkIdle ==
    /\ text = <<>>
    /\ cArgs = <<DefaultChunkSize, DefaultOverlap>>
    /\ chunkSize = DefaultChunkSize
    /\ overlap = DefaultOverlap
    /\ start = 0
    /\ chunks = <<>>
    /\ cPc = "idle"
    /\ cIter = 0
    /\ cForced = 0

\* generateEmbeddings before it is called
EmbedIdle ==
    /\ textArray = <<>>
    /\ embeddings = <<>>
    /\ currentBatch = <<>>
    /\ currentBatchChars = 0
    /\ geI = 0
    /\ geReq = <<>>
    /\ gePc = "idle"
    /\ geCalls = 0
    /\ geErrors = 0
    /\ geReqs = 0
    /\ geItemReqs = 0
    /\ geStatus = 0
    /\ geResult = <<>>

\* crawlWebsite before it is called
CrawlIdle ==
    /\ startUrls = <<>>
    /\ visitedPages = {}
    /\ pagesToVisit = <<>>
    /\ scrapedContent = <<>>
    /\ crPc = "idle"
    /\ fetched = <<>>
    /\ crSkipped = <<>>
    /\ crDelayed = FALSE

\* trainAIBot before it is started; ChromaDB holds no collection
RunIdle ==
    /\ run = 1
    /\ tPc = "idle"
    /\ coll = [exists |-> FALSE, records |-> {}]
    /\ pageIndex = 0
    /\ batchStart = 0
    /\ totalChunks = 0
    /\ itemFailures = 0
    /\ priorRecords = FALSE
    /\ addFailures = 0
    /\ passedIds = <<>>
    /\ now = 0
    /\ trainer = "optimized"
    /\ fallbackK = 0
    /\ legacyErrors = 0

InitChunk ==
    /\ WidgetIdle
    /\ PeerIdle
    /\ RerunIdle
    /\ ChatIdle
    /\ EmbedIdle
    /\ CrawlIdle
    /\ RunIdle
    /\ \E call \in ChunkCalls : text = call[1] /\ cArgs = call[2]
    /\ chunkSize = cArgs[1]
    /\ overlap = cArgs[2]
    /\ start = 0
    /\ chunks = <<>>
    /\ cPc = "entry"
    /\ cIter = 0
    /\ cForced = 0

NextChunk == SplitValidate \/ SplitIterate

SpecChunk == InitChunk /\ [][NextChunk]_vars

\* the scheduler runs the loop to its end: nothing else is awaited in it
SpecChunkFair == SpecChunk /\ WF_vars(NextChunk)

-----------------------------------------------------------------------------
(* Inputs of generateEmbeddings *)

\* n texts of the same length
Uniform(n, len) == [i \in 1..n |-> TextItem(i, len)]

\* texts of the given lengths
OfLens(lens) == [i \in 1..Len(lens) |-> TextItem(i, lens[i])]

EmbedInputs ==
    \* few texts, about maxBatchSize texts, and the 250 of the partitioning test
    {Uniform(n, 10) : n \in (0..(1 + Delta)) \cup Around(maxBatchSize) \cup {250}}
        \* about as many short texts as fill the character budget
        \cup {Uniform(n, 200) : n \in Around(maxTokensPerRequest \div 200)}
        \* batches of chunks as storeInChromaDB passes them
        \cup {Uniform(n, DefaultChunkSize) : n \in {1, 5, 6, 15}}
        \* two texts whose total is about the character budget
        \cup {OfLens(<<4000, n>>) : n \in Around(maxTokensPerRequest - 4000)}
        \* a text that alone exceeds the character budget
        \cup {OfLens(<<9000>>), OfLens(<<100, 9000, 100>>)}

InitEmbed ==
    /\ WidgetIdle
    /\ PeerIdle
    /\ RerunIdle
    /\ ChatIdle
    /\ ChunkIdle
    /\ CrawlIdle
    /\ RunIdle
    /\ textArray \in EmbedInputs
    /\ embeddings = <<>>
    /\ currentBatch = <<>>
    /\ currentBatchChars = 0
    /\ geI = 0
    /\ geReq = <<>>
    /\ gePc = "call"
    /\ geCalls = 1
    /\ geErrors = 0
    /\ geReqs = 0
    /\ geItemReqs = 0
    /\ geStatus = 0
    /\ geResult = <<>>

SpecEmbed == InitEmbed /\ [][GenerateEmbeddings]_vars

-----------------------------------------------------------------------------
(* Inputs of crawlWebsite *)

\* the seeds tried: the configured first seed (no path), a seed with a
\* fragment, a subdomain of an allowed domain, a host outside the allowed
\* domains and a string that is no URL
SeedUrls ==
    {Url(PopgCom, "", ""), Url(PopgCom, "/a", "#x"), Url(SubPopgCom, "/", ""),
     Url(EvilPopgCom, "/", ""), Url(<<>>, "", "")}

InitCrawl ==
    /\ WidgetIdle
    /\ PeerIdle
    /\ RerunIdle
    /\ ChatIdle
    /\ ChunkIdle
    /\ EmbedIdle
    /\ RunIdle
    /\ startUrls \in SeqsUpTo(SeedUrls, MaxSeeds)
    /\ visitedPages = {}
    /\ pagesToVisit = [k \in 1..Len(startUrls) |-> Entry(startUrls[k], 0)]
    /\ scrapedContent = <<>>
    /\ crPc = "loop"
    /\ fetched = <<>>
    /\ crSkipped = <<>>
    /\ crDelayed = FALSE

SpecCrawl == InitCrawl /\ [][CrawlWebsite]_vars

\* every fetch returns or fails, and the loop goes on after it
SpecCrawlFair == SpecCrawl /\ WF_vars(CrawlWebsite)

-----------------------------------------------------------------------------
(* Two ingestion runs, one after the other *)

InitRun ==
    /\ WidgetIdle
    /\ PeerIdle
    /\ RerunIdle
    /\ ChatIdle
    /\ ChunkIdle
    /\ EmbedIdle
    /\ CrawlIdle
    /\ RunIdle

SpecRun == InitRun /\ [][TrainAIBot]_vars

-----------------------------------------------------------------------------
(* The loop of storeInChromaDB, of either trainer, while the clock runs *)

\* storeInChromaDB has created the collection and enters the loop over the
\* pages the crawl returned
InitStore ==
    /\ WidgetIdle
    /\ PeerIdle
    /\ RerunIdle
    /\ ChatIdle
    /\ ChunkIdle
    /\ EmbedIdle
    /\ startUrls = <<>>
    /\ visitedPages = {}
    /\ pagesToVisit = <<>>
    /\ trainer \in {"optimized", "legacy"}
    /\ scrapedContent \in OnePageOrTwo(IF trainer = "optimized" THEN RunPages
                                       ELSE LegacyPages)
    /\ crPc = "done"
    /\ fetched = <<>>
    /\ crSkipped = <<>>
    /\ crDelayed = FALSE
    /\ run = 1
    /\ tPc = "page"
    /\ coll = [exists |-> TRUE, records |-> {}]
    /\ pageIndex = 0
    /\ batchStart = 0
    /\ totalChunks = 0
    /\ itemFailures = 0
    /\ priorRecords = FALSE
    /\ addFailures = 0
    /\ passedIds = <<>>
    /\ now = 0
    /\ fallbackK = 0
    /\ legacyErrors = 0

SpecStore == InitStore /\ [][StorePages]_vars

\* trainer.js lines 186-190 and 259: the page texts that reach the chunker
\* are longer than 100 characters and at most maxContentSize long
SimplePageTexts ==
    {<<Ink(n)>> : n \in {simpleMinContentChars + 1, simpleChunkOverlap, simpleChunkOverlap + 1,
                         simpleChunkSize - simpleChunkOverlap, simpleChunkSize - 1,
                         simpleChunkSize, simpleChunkSize + 1,
                         simpleChunkSize + simpleChunkOverlap, 2 * simpleChunkSize,
                         2 * simpleChunkSize + 1, 3000, simpleMaxContentSize}}

\* trainer.js line 326: splitTextIntoChunks(page.content), with the defaults
\* of line 77
InitSimpleChunk ==
    /\ WidgetIdle
    /\ PeerIdle
    /\ RerunIdle
    /\ ChatIdle
    /\ EmbedIdle
    /\ CrawlIdle
    /\ run = 1
    /\ tPc = "page"
    /\ coll = [exists |-> TRUE, records |-> {}]
    /\ pageIndex = 0
    /\ batchStart = 0
    /\ totalChunks = 0
    /\ itemFailures = 0
    /\ priorRecords = FALSE
    /\ addFailures = 0
    /\ passedIds = <<>>
    /\ now = 0
    /\ trainer = "trainer.js"
    /\ fallbackK = 0
    /\ legacyErrors = 0
    /\ text \in SimplePageTexts
    /\ cArgs = <<simpleChunkSize, simpleChunkOverlap>>
    /\ chunkSize = simpleChunkSize
    /\ overlap = simpleChunkOverlap
    /\ start = 0
    /\ chunks = <<>>
    /\ cPc = "loop"
    /\ cIter = 0
    /\ cForced = 0

SpecSimpleChunk == InitSimpleChunk /\ [][SimpleSplitIterate]_vars

\* the loop is run without a pause: nothing is awaited in it
SpecSimpleChunkFair == SpecSimpleChunk /\ WF_vars(SimpleSplitIterate)

\* the pages the first process has crawled: one page, or two
TwoRunsPages ==
    {<<page>> : page \in {q \in RunPages : ~q.isPdf}}
        \cup {pages \in OnePageOrTwo({q \in RunPages : ~q.isPdf}) : Len(pages) = 2}

\* the first process enters storeInChromaDB; the second has not been started,
\* or has run to its end and left its records
InitTwoRuns ==
    /\ WidgetIdle
    /\ RerunIdle
    /\ ChatIdle
    /\ ChunkIdle
    /\ EmbedIdle
    /\ startUrls = <<>>
    /\ visitedPages = {}
    /\ pagesToVisit = <<>>
    /\ scrapedContent \in TwoRunsPages
    /\ crPc = "done"
    /\ fetched = <<>>
    /\ crSkipped = <<>>
    /\ crDelayed = FALSE
    /\ run = 1
    /\ tPc = "delete"
    /\ pageIndex = 0
    /\ batchStart = 0
    /\ totalChunks = 0
    /\ itemFailures = 0
    /\ priorRecords = FALSE
    /\ addFailures = 0
    /\ passedIds = <<>>
    /\ now = 0
    /\ trainer = "optimized"
    /\ fallbackK = 0
    /\ legacyErrors = 0
    /\ overlapped = FALSE
    /\ \/ /\ peerPc = "idle"
          /\ peerBatch = 0
          /\ peerStored = 0
          /\ coll = [exists |-> FALSE, records |-> {}]
       \/ /\ peerPc = "done"
          /\ peerBatch = Len(PeerBatches)
          /\ coll = [exists |-> TRUE,
                     records |-> UNION {PeerBatches[b] : b \in 1..Len(PeerBatches)}]
          /\ peerStored = Cardinality(coll.records)

SpecTwoRuns == InitTwoRuns /\ [][TwoRuns]_vars

\* one run enters storeInChromaDB with the pages of its crawl; there is no
\* collection yet
InitOneRun ==
    /\ WidgetIdle
    /\ PeerIdle
    /\ RerunIdle
    /\ ChatIdle
    /\ ChunkIdle
    /\ EmbedIdle
    /\ startUrls = <<>>
    /\ visitedPages = {}
    /\ pagesToVisit = <<>>
    /\ scrapedContent \in OnePageOrTwo(RunPages)
    /\ crPc = "done"
    /\ fetched = <<>>
    /\ crSkipped = <<>>
    /\ crDelayed = FALSE
    /\ run = 1
    /\ tPc = "delete"
    /\ coll = [exists |-> FALSE, records |-> {}]
    /\ pageIndex = 0
    /\ batchStart = 0
    /\ totalChunks = 0
    /\ itemFailures = 0
    /\ priorRecords = FALSE
    /\ addFailures = 0
    /\ passedIds = <<>>
    /\ now = 0
    /\ trainer = "optimized"
    /\ fallbackK = 0
    /\ legacyErrors = 0

SpecOneRun == InitOneRun /\ [][StoreInChromaDB]_vars

\* the event loop runs every continuation that is ready: the run is not
\* suspended for ever
SpecOneRunFair == SpecOneRun /\ WF_vars(StoreInChromaDB)

\* the first run enters storeInChromaDB with the pages of its crawl
InitRerun == InitOneRun

SpecRerun == InitRerun /\ [][Rerun]_vars

\* pages whose text has no more than MinChunkChars characters between its
\* first and its last non-whitespace character
ThinPages ==
    {[url |-> Url(PopgCom, "/thin", ""), content |-> <<Ink(MinChunkChars)>>, isPdf |-> FALSE],
     [url |-> Url(PopgCom, "/padded", ""),
      content |-> <<Blank(2), Ink(MinChunkChars), Blank(150)>>, isPdf |-> FALSE],
     [url |-> Url(PopgCom, "/blank", ""), content |-> <<Blank(300)>>, isPdf |-> FALSE]}

\* storeInChromaDB as a function of its argument: a list of one or two pages,
\* thin pages among them (crawlWebsite itself hands over no page whose text is
\* that short)
InitThinPage ==
    /\ WidgetIdle
    /\ PeerIdle
    /\ RerunIdle
    /\ ChatIdle
    /\ ChunkIdle
    /\ EmbedIdle
    /\ startUrls = <<>>
    /\ visitedPages = {}
    /\ pagesToVisit = <<>>
    /\ scrapedContent \in {list \in SeqsUpTo(ThinPages \cup RunPages, 2) :
                              /\ Len(list) > 0
                              /\ \E k \in 1..Len(list) : list[k] \in ThinPages
                              /\ \A i, j \in 1..Len(list) : i # j => list[i] # list[j]}
    /\ crPc = "done"
    /\ fetched = <<>>
    /\ crSkipped = <<>>
    /\ crDelayed = FALSE
    /\ run = 1
    /\ tPc = "page"
    /\ coll = [exists |-> TRUE, records |-> {}]
    /\ pageIndex = 0
    /\ batchStart = 0
    /\ totalChunks = 0
    /\ itemFailures = 0
    /\ priorRecords = FALSE
    /\ addFailures = 0
    /\ passedIds = <<>>
    /\ now = 0
    /\ trainer = "optimized"
    /\ fallbackK = 0
    /\ legacyErrors = 0

\* splitTextIntoChunks called on its own, or storeInChromaDB called on a
\* list with thin pages
SpecThinPage == (InitChunk \/ InitThinPage) /\ [][NextChunk \/ OptimizedStore]_vars

\* embed.js has run: the widget is created at once when the document is
\* already parsed (line 218), and on DOMContentLoaded otherwise (line 216)
InitWidget ==
    /\ PeerIdle
    /\ RerunIdle
    /\ ChatIdle
    /\ ChunkIdle
    /\ EmbedIdle
    /\ CrawlIdle
    /\ RunIdle
    /\ widgetCreated \in BOOLEAN
    /\ isOpen = FALSE
    /\ containerScale = 0
    /\ toggleClasses = {}
    /\ widgetLog = <<>>

SpecWidget == InitWidget /\ [][Widget]_vars

\* widget.js lines 651-672: the chat widget has been constructed
InitChat ==
    /\ WidgetIdle
    /\ PeerIdle
    /\ RerunIdle
    /\ ChunkIdle
    /\ EmbedIdle
    /\ CrawlIdle
    /\ RunIdle
    /\ ChatIdle

SpecChat == InitChat /\ [][Chat]_vars

-----------------------------------------------------------------------------
(* Claims about the chunker *)

\* C2: splitTextIntoChunks terminates for every text, every chunkSize > 0 and
\* every overlap (overlap >= chunkSize and overlap = chunkSize - 1 included):
\* each loop iteration strictly increases the cursor start, so the loop has
\* run at most text.length iterations when it ends, and it does end.
ChunkerTerminates ==
    /\ [][cPc = "loop" => (start' > start /\ cIter' <= TextLen(text))]_vars
    /\ <>(cPc = "done")

\* C2 witness: a run with overlap = chunkSize - 1 that is over, in which the
\* cursor was moved by floor(chunkSize/2) more than once.
ChunkerTerminatesWitness ==
    /\ cPc = "done"
    /\ cArgs[2] = cArgs[1] - 1
    /\ cForced > 1
    /\ cIter > 2

\* position i of the text lies inside an emitted chunk
Covered(i) == \E k \in 1..Len(chunks) : chunks[k].from <= i /\ i < chunks[k].to

\* C3: when splitTextIntoChunks has returned for a text longer than the
\* minimum chunk length, every character position of the text lies inside at
\* least one emitted chunk.
ChunkCoverage ==
    (cPc = "done" /\ TextLen(text) > MinChunkChars)
        => \A i \in 0..(TextLen(text) - 1) : Covered(i)

-----------------------------------------------------------------------------
(* Claims about generateEmbeddings *)

\* the returned vectors are those of the input texts, one each, in input order
InInputOrder ==
    /\ Len(geResult) = Len(textArray)
    /\ \A i \in 1..Len(textArray) : geResult[i].of = textArray[i].id

\* C4: whenever generateEmbeddings returns, by whichever path (single request,
\* one batch, sub-batches, after a rate-limit retry, per-item fallback), it
\* returns exactly one vector per input text, and the vector at position i is
\* the one the API produced for input text i.
EmbeddingsMatchInputs == gePc = "returned" => InInputOrder

\* C4 witness: a call with more texts than one batch holds has returned from
\* the per-item fallback, entered in a retry after a rate-limit signal.
EmbeddingsMatchInputsWitness ==
    /\ gePc = "returned"
    /\ Len(textArray) > maxBatchSize
    /\ geCalls > 1
    /\ geReqs > 1
    /\ geItemReqs = Len(textArray)

\* C5 as stated: every request sent to the embedding API carries at most
\* maxBatchSize texts and at most maxTokensPerRequest characters in total,
\* and a call with more than maxBatchSize texts that returns has sent more
\* than one request and returns the vectors in input order.
RequestsRespectBothLimits ==
    /\ Len(geReq) <= maxBatchSize
    /\ TotalChars(geReq) <= maxTokensPerRequest
    /\ (gePc = "returned" /\ Len(textArray) > maxBatchSize)
          => (geReqs + geItemReqs > 1 /\ InInputOrder)

\* C5 amended: every request carries at most maxBatchSize texts, and at most
\* maxTokensPerRequest characters in total unless it consists of one single
\* text (which then alone exceeds the budget); a call with more than
\* maxBatchSize texts that returns has sent more than one request and returns
\* the vectors in input order.
RequestsRespectLimitsUnlessOneText ==
    /\ Len(geReq) <= maxBatchSize
    /\ (TotalChars(geReq) <= maxTokensPerRequest \/ Len(geReq) = 1)
    /\ (gePc = "returned" /\ Len(textArray) > maxBatchSize)
          => (geReqs + geItemReqs > 1 /\ InInputOrder)

\* C5 witness: the 250 texts have been returned after three requests, the
\* first of which carried exactly maxBatchSize texts.
RequestsRespectLimitsWitness ==
    /\ gePc = "returned"
    /\ Len(textArray) = 250
    /\ geReqs = 3
    /\ geItemReqs = 0
    /\ geResult[maxBatchSize + 1].of = textArray[maxBatchSize + 1].id

\* C6: when the API answers every attempt with status 429, generateEmbeddings
\* gives up after a bounded number of attempts (the configured maxRetries
\* retries after the first attempt) and throws.
RateLimitRetriesBounded == geCalls <= maxRetries + 1

-----------------------------------------------------------------------------
(* Claims about crawlWebsite *)

FetchedUrls == {fetched[k].url : k \in 1..Len(fetched)}

VisitedWithinMaxPages ==
    /\ Cardinality(visitedPages) <= maxPages
    /\ Len(fetched) <= maxPages
    /\ Len(scrapedContent) <= Cardinality(visitedPages)

\* the crawl has ended on the page limit with entries left in the queue, and
\* one of the pages visited was not kept
VisitedWithinMaxPagesWitness ==
    /\ crPc = "done"
    /\ Cardinality(visitedPages) = maxPages
    /\ Len(pagesToVisit) > 0
    /\ Len(scrapedContent) < Cardinality(visitedPages)

\* C10: every entry fetched has an allowed host and a depth of at most
\* maxDepth; an entry dropped at dequeue is not fetched and not added to the
\* visited set, which holds the fetched URLs and nothing else
OnlyAllowedShallowFetched ==
    /\ \A k \in 1..Len(fetched) :
          isAllowedDomain(fetched[k].url) /\ fetched[k].depth <= maxDepth
    /\ visitedPages = FetchedUrls
    /\ \A k \in 1..Len(crSkipped) :
          (~isAllowedDomain(crSkipped[k].url) \/ crSkipped[k].depth > maxDepth)
              => crSkipped[k].url \notin visitedPages

\* a seed on a host that is not allowed was dropped at dequeue, and the
\* crawl went on to fetch the maxPages pages it may fetch
OnlyAllowedShallowFetchedWitness ==
    /\ crPc = "done"
    /\ Len(crSkipped) > 0
    /\ ~isAllowedDomain(crSkipped[1].url)
    /\ crSkipped[1].url \notin visitedPages
    /\ Len(fetched) = maxPages

\* a host that is an allowed domain, or a label sequence, a dot and an
\* allowed domain
HostMatches(host) ==
    \E domain \in allowedDomains :
       \/ host = domain
       \/ /\ Len(host) > Len(domain)
          /\ host[Len(host) - Len(domain)] = "."
          /\ \A i \in 1..Len(domain) : host[Len(host) - Len(domain) + i] = domain[i]

\* C11: isAllowedDomain accepts a URL exactly when it parses and its host is
\* an allowed domain or ends with a dot and an allowed domain: sub.popg.com
\* is accepted, evil-popg.com and an unparsable URL are rejected, and only
\* URLs of such hosts are fetched
DomainFilterExact ==
    /\ \A k \in 1..Len(startUrls) :
          LET url == startUrls[k]
          IN  /\ isAllowedDomain(url) <=> (Parsable(url) /\ HostMatches(url.host))
              /\ url.host = SubPopgCom => isAllowedDomain(url)
              /\ url.host = EvilPopgCom => ~isAllowedDomain(url)
              /\ ~Parsable(url) => ~isAllowedDomain(url)
    /\ \A k \in 1..Len(fetched) : HostMatches(fetched[k].url.host)

\* a crawl seeded with sub.popg.com and evil-popg.com has ended: the first
\* was fetched, the second dropped
DomainFilterExactWitness ==
    /\ crPc = "done"
    /\ startUrls = <<Url(SubPopgCom, "/", ""), Url(EvilPopgCom, "/", "")>>
    /\ fetched = <<Entry(Url(SubPopgCom, "/", ""), 0)>>
    /\ crSkipped = <<Entry(Url(EvilPopgCom, "/", ""), 0)>>

\* the links that belong in the frontier, given the set of the anchors of a
\* page: the anchors, normalized, on an allowed host, not visited and not in
\* the queue
LinksToEnqueue(anchors, visited, queue) ==
    {link \in {normalizeUrl(href)[1] :
                  href \in {a \in anchors : normalizeUrl(a) # <<>>}} :
        /\ HostMatches(link.host)
        /\ link \notin visited
        /\ \A k \in 1..Len(queue) : queue[k].url # link}

\* C12: when the entry at the head of the frontier is fetched at a depth
\* below maxDepth and gives an accepted HTML page, the frontier afterwards is
\* the rest of the queue followed by one entry of depth + 1 for each distinct
\* allowed link of the page that is neither visited nor pending, and by
\* nothing else; the entries added depend on the set of the anchors only,
\* not on their order in the page
FrontierOfPage ==
    (/\ crPc = "loop"
     /\ LoopContinues(pagesToVisit, visitedPages)
     /\ ~SkipEntry(Head(pagesToVisit), visitedPages)
     /\ Head(pagesToVisit).depth < maxDepth) =>
        LET entry   == Head(pagesToVisit)
            rest    == Tail(pagesToVisit)
            visited == visitedPages \cup {entry.url}
        IN  \A r \in Responses :
               \A pageData \in {scrapePage(entry.url, r)} :
               \A after \in {FrontierAfter(pageData, entry.depth, visited, rest)} :
               \A links \in {LinksToEnqueue({r.hrefs[k] : k \in 1..Len(r.hrefs)},
                                             visited, rest)} :
               LET added == SubSeq(after, Len(rest) + 1, Len(after))
               IN  (Accepted(pageData) /\ ~pageData[1].isPdf) =>
                      /\ SubSeq(after, 1, Len(rest)) = rest
                      /\ {added[k] : k \in 1..Len(added)} =
                            {Entry(link, entry.depth + 1) : link \in links}
                      /\ Len(added) = Cardinality(links)

\* the one seed was fetched at depth 0 and its page, of three links within
\* the allowed domains and one outside, left exactly three entries of depth 1
FrontierOfPageWitness ==
    /\ Len(startUrls) = 1
    /\ fetched = <<Entry(startUrls[1], 0)>>
    /\ startUrls[1].host = SubPopgCom
    /\ Len(pagesToVisit) = 3
    /\ \A k \in 1..3 : pagesToVisit[k].depth = 1 /\ HostMatches(pagesToVisit[k].url.host)
    /\ \A i, j \in 1..3 : i # j => pagesToVisit[i].url # pagesToVisit[j].url

-----------------------------------------------------------------------------
(* Claims about storeInChromaDB and trainAIBot *)

\* C1: the second run replaces the collection: once its storeInChromaDB has
\* created the collection, every record in it is one the second run stored,
\* and their number is the number of chunks the run has counted as stored
SecondRunReplacesCollection ==
    (run = 2 /\ tPc \in {"page", "batch", "embedding", "done"}) =>
        /\ \A rec \in coll.records : rec.run = 2
        /\ Cardinality(coll.records) = totalChunks

\* the second run has ended after storing chunks, and the first run had left
\* records in the collection
SecondRunReplacesCollectionWitness ==
    /\ run = 2
    /\ tPc = "done"
    /\ priorRecords
    /\ totalChunks > 0
    /\ Cardinality(coll.records) = totalChunks

ZeroPagesAbortsBeforeStore ==
    [][/\ (tPc = "crawl" /\ scrapedContent' = <<>>) => (tPc' = "failed" /\ coll' = coll)
       /\ tPc = "failed" => coll' = coll]_vars

\* the second run has failed on an empty crawl, and the collection still
\* holds the records of the first run
ZeroPagesAbortsBeforeStoreWitness ==
    /\ run = 2
    /\ tPc = "failed"
    /\ crPc = "done"
    /\ scrapedContent = <<>>
    /\ coll.exists
    /\ coll.records # {}
    /\ \A rec \in coll.records : rec.run = 1

\* C14: within one run the ids passed to collection.add are pairwise
\* different, also when the clock did not advance between them, across
\* batches, pages and the per-chunk fallback
IdsUnique == Cardinality({passedIds[i] : i \in 1..Len(passedIds)}) = Len(passedIds)

\* the trainer-optimized.js run has ended with the records of two pages and
\* of two batches of a page stored, all built within the same millisecond
IdsUniqueWitness ==
    /\ trainer = "optimized"
    /\ tPc = "done"
    /\ now = 0
    /\ Len(scrapedContent) = 2
    /\ Len(passedIds) > embeddingBatchSize + 1
    /\ Cardinality(coll.records) = Len(passedIds)

\* the legacy run has ended after a batch was passed to collection.add, was
\* rejected, and its chunks were passed again one by one, in the same
\* millisecond
IdsUniqueLegacyWitness ==
    /\ trainer = "legacy"
    /\ tPc = "done"
    /\ now = 0
    /\ addFailures = 1
    /\ Len(passedIds) > Cardinality(coll.records)
    /\ Cardinality(coll.records) = totalChunks
    /\ totalChunks > legacyEmbeddingBatchSize


\* C15: a rejected collection.add is caught around its batch: the collection
\* keeps the records it had, the loop goes on with the next batch of the same
\* page, no later step of the run fails, and the run comes to its end
AddFailureSkipsOnlyItsBatch ==
    /\ [][(tPc = "embedding" /\ gePc = "returned" /\ addFailures' # addFailures) =>
             /\ tPc' = "batch"
             /\ batchStart' = batchStart + embeddingBatchSize
             /\ pageIndex' = pageIndex
             /\ coll' = coll
             /\ run' = run]_vars
    /\ [][(addFailures > 0 /\ run' = run) =>
             /\ tPc' # "failed"
             /\ coll.records \subseteq coll'.records
             /\ (pageIndex' # pageIndex =>
                    batchStart >= Len(chunks) /\ pageIndex' = pageIndex + 1)
             /\ (tPc' = "done" => pageIndex >= Len(scrapedContent))]_vars
    /\ (addFailures > 0 ~> tPc = "done")

\* a run of two pages has ended: the add of the first batch of the PDF was
\* rejected, its second batch and the page after it were stored
AddFailureSkipsOnlyItsBatchWitness ==
    /\ tPc = "done"
    /\ addFailures = 1
    /\ itemFailures = 0
    /\ Len(scrapedContent) = 2
    /\ \E rec \in coll.records : rec.page_index = 0 /\ rec.chunk_index >= embeddingBatchSize
    /\ \A rec \in coll.records : rec.page_index = 0 => rec.chunk_index >= embeddingBatchSize
    /\ \E rec \in coll.records : rec.page_index = 1

\* the depths of a sequence of entries never go down
DepthsAscend(entries) ==
    \A k \in 1..(Len(entries) - 1) : entries[k].depth <= entries[k + 1].depth

\* C16: the crawl is breadth first: an iteration takes the entry at the head
\* of the frontier and new entries go to its tail, the depths in the
\* frontier never go down from head to tail, no entry waiting is less deep
\* than the page fetched last, and the pages are fetched in ascending depth
BreadthFirst ==
    /\ [](/\ DepthsAscend(pagesToVisit)
          /\ DepthsAscend(fetched)
          /\ (fetched # <<>> /\ pagesToVisit # <<>>) =>
                 fetched[Len(fetched)].depth <= Head(pagesToVisit).depth)
    /\ [][pagesToVisit' # pagesToVisit =>
             /\ Len(pagesToVisit') >= Len(pagesToVisit) - 1
             /\ SubSeq(pagesToVisit', 1, Len(pagesToVisit) - 1) = Tail(pagesToVisit)
             /\ \/ /\ fetched' = Append(fetched, Head(pagesToVisit))
                   /\ crSkipped' = crSkipped
                \/ /\ crSkipped' = Append(crSkipped, Head(pagesToVisit))
                   /\ fetched' = fetched]_vars

\* two seeds were fetched, the first one's link was put behind the second
\* seed and fetched after it, one level deeper
BreadthFirstWitness ==
    /\ Len(fetched) = 3
    /\ fetched[1].depth = 0
    /\ fetched[2].depth = 0
    /\ fetched[3].depth = 1
    /\ Len(startUrls) = 2
    /\ fetched[2] = Entry(startUrls[2], 0)

LastWidgetOp == widgetLog[Len(widgetLog)]

\* C18: once the widget is loaded, it is shown after a call of open() and
\* hidden after a call of close(), whatever was clicked or called before
ApiOpenOpensCloseCloses ==
    (widgetLog # <<>> /\ LastWidgetOp.loaded) =>
        /\ LastWidgetOp.op = "open" => (isOpen /\ containerScale = 1)
        /\ LastWidgetOp.op = "close" => (~isOpen /\ containerScale = 0)

\* C19: nothing keeps a second run out of storeInChromaDB while a run is
\* inside it, so the collection is only sure to be replaced when the runs
\* do not overlap: then, once both have ended, the collection holds the
\* records of one run only, as many as that run has counted
OnlyRunsApartReplace ==
    /\ peerPc = "idle" => ENABLED PeerStart
    /\ (tPc = "done" /\ peerPc = "done" /\ ~overlapped) =>
           \/ /\ \A rec \in coll.records : rec.run = run
              /\ Cardinality(coll.records) = totalChunks
           \/ /\ \A rec \in coll.records : rec.run = PeerRun
              /\ Cardinality(coll.records) = peerStored

\* the second run has entered while the first was storing, and its delete
\* has removed the collection with the chunks the first run had stored; the
\* first run is still in its loop
OnlyRunsApartReplaceWitness ==
    /\ overlapped
    /\ peerPc = "create"
    /\ ~coll.exists
    /\ coll.records = {}
    /\ totalChunks > 0
    /\ tPc \in {"page", "batch", "embedding"}

\* C20: splitTextIntoChunks of trainer.js returns for every page text, with
\* the configured chunkSize 1200 and chunkOverlap 200: no iteration that
\* stays in the loop leaves the cursor where it was (the loop's course
\* depends on the cursor alone), and the return is reached
SimpleChunkerTerminates ==
    /\ [][(trainer = "trainer.js" /\ cPc = "loop" /\ cPc' = "loop") => start' # start]_vars
    /\ <>(trainer = "trainer.js" /\ cPc = "done")

\* C21: every URL is in normalized form when it enters the visited set, and
\* no two fetched entries have the same normalized form
NormalizedUrlsFetchedOnce ==
    /\ \A url \in visitedPages : normalizeUrl(url) = <<url>>
    /\ \A i, j \in 1..Len(fetched) :
          i # j => normalizeUrl(fetched[i].url) # normalizeUrl(fetched[j].url)


\* C22: whenever a fetch makes scrapePage return a document, crawlWebsite
\* appends that document to the scraped pages
ReturnedDocumentsAreAccepted ==
    [][(/\ crPc = "loop"
        /\ Len(pagesToVisit) > 0
        /\ fetched' = Append(fetched, Head(pagesToVisit)))
          => \A r \in Responses :
                LET entry    == Head(pagesToVisit)
                    pageData == scrapePage(entry.url, r)
                IN  (/\ pageData # <<>>
                     /\ pagesToVisit' = FrontierAfter(pageData, entry.depth, visitedPages',
                                                      Tail(pagesToVisit)))
                        => scrapedContent' = Append(scrapedContent, Kept(pageData[1]))]_vars


\* C23: a run of trainAIBot that ends without a fatal error leaves a
\* collection holding at least one record
CompletedRunLeavesRecords ==
    (trainer = "optimized" /\ tPc = "done") => (coll.exists /\ coll.records # {})


\* C24 as stated: a fetch that fails, a content below the minimum and a PDF
\* each leave the frontier without a new entry and the scraped pages
\* unchanged, and the crawl goes on with the next entry
UnkeptEntryFrameAlsoForPdf ==
    [][(/\ crPc = "loop"
        /\ Len(pagesToVisit) > 0
        /\ fetched' = Append(fetched, Head(pagesToVisit)))
          => LET entry == Head(pagesToVisit)
             IN  /\ \A r \in Responses :
                       LET pageData == scrapePage(entry.url, r)
                       IN  (/\ ~r.ok \/ r.textLen < MinContentChars
                            /\ scrapedContent' = IF Accepted(pageData)
                                                 THEN Append(scrapedContent, Kept(pageData[1]))
                                                 ELSE scrapedContent
                            /\ pagesToVisit' = FrontierAfter(pageData, entry.depth,
                                                             visitedPages',
                                                             Tail(pagesToVisit)))
                              => /\ pagesToVisit' = Tail(pagesToVisit)
                                 /\ scrapedContent' = scrapedContent
                 /\ isPdfUrl(entry.url)
                       => /\ pagesToVisit' = Tail(pagesToVisit)
                          /\ scrapedContent' = scrapedContent]_vars

\* C24: a fetch that fails and a content below the minimum leave the frontier
\* without a new entry and the scraped pages unchanged; a PDF leaves the
\* frontier without a new entry (its document is kept when it is long
\* enough); in each case the crawl goes on with the next entry
UnkeptEntryFrame ==
    [][(/\ crPc = "loop"
        /\ Len(pagesToVisit) > 0
        /\ fetched' = Append(fetched, Head(pagesToVisit)))
          => LET entry == Head(pagesToVisit)
             IN  /\ \A r \in Responses :
                       LET pageData == scrapePage(entry.url, r)
                       IN  (/\ ~r.ok \/ r.textLen < MinContentChars
                            /\ scrapedContent' = IF Accepted(pageData)
                                                 THEN Append(scrapedContent, Kept(pageData[1]))
                                                 ELSE scrapedContent
                            /\ pagesToVisit' = FrontierAfter(pageData, entry.depth,
                                                             visitedPages',
                                                             Tail(pagesToVisit)))
                              => /\ pagesToVisit' = Tail(pagesToVisit)
                                 /\ scrapedContent' = scrapedContent
                 /\ isPdfUrl(entry.url)
                       => /\ pagesToVisit' = Tail(pagesToVisit)
                          /\ \/ scrapedContent' = scrapedContent
                             \/ /\ Len(scrapedContent') = Len(scrapedContent) + 1
                                /\ SubSeq(scrapedContent', 1, Len(scrapedContent))
                                      = scrapedContent
                                /\ scrapedContent'[Len(scrapedContent')].url = entry.url
                                /\ scrapedContent'[Len(scrapedContent')].isPdf]_vars

\* an entry was fetched and not kept, and after it a PDF was fetched and kept
PdfKeptAfterUnkeptEntry ==
    \E i, j \in 1..Len(fetched) :
        /\ i < j
        /\ \A k \in 1..Len(scrapedContent) : scrapedContent[k].url # fetched[i].url
        /\ isPdfUrl(fetched[j].url)
        /\ \E k \in 1..Len(scrapedContent) :
              scrapedContent[k].url = fetched[j].url /\ scrapedContent[k].isPdf


\* C25: after a status 400 for more than one text the fallback sends one
\* request per text, in the order of the input, and what it returns are
\* the vectors of these requests; a status 400 for exactly one text starts
\* no fallback and is thrown with no request left
BadRequestFallsBackPerItem ==
    /\ gePc = "individual"
          => /\ Len(textArray) > 1
             /\ geI \in 1..Len(textArray)
             /\ geItemReqs = geI
             /\ geReq = <<textArray[geI]>>
             /\ embeddings = [k \in 1..(geI - 1) |-> ApiData(<<textArray[k]>>, geCalls)[1]]
    /\ (gePc = "returned" /\ geItemReqs > 0)
          => /\ geItemReqs = Len(textArray)
             /\ geResult = [k \in 1..Len(textArray) |->
                               ApiData(<<textArray[k]>>, geCalls)[1]]
    /\ Len(textArray) = 1
          => /\ geItemReqs = 0
             /\ gePc = "thrown" => geReq = <<>> /\ geStatus \in {400, 500}

\* the fallback has returned after a sub-batch of the same invocation had
\* been answered
FallbackReturnedAfterSubBatch ==
    /\ gePc = "returned"
    /\ geReqs > 1
    /\ geItemReqs = Len(textArray)
    /\ Len(geResult) = Len(textArray)


\* C26: a status 429 in the try block starts a new invocation on the whole
\* input with nothing collected and no request counted; the vectors held at
\* any time are those of the current invocation, and the result returned
\* has one vector per text, in input order, each obtained after the last
\* status 429
RateLimitRetriesFromScratch ==
    /\ [](/\ \A k \in 1..Len(embeddings) : embeddings[k].call = geCalls
          /\ gePc = "returned"
                => /\ Len(geResult) = Len(textArray)
                   /\ \A k \in 1..Len(geResult) :
                         geResult[k] = [of |-> textArray[k].id, call |-> geCalls])
    /\ [][(geErrors' = geErrors + 1 /\ gePc' \notin {"thrown", "individual"})
             => /\ InTryBlock
                /\ gePc' = "call"
                /\ geCalls' = geCalls + 1
                /\ textArray' = textArray
                /\ embeddings' = <<>>
                /\ geReqs' = 0
                /\ geReq' = <<>>]_vars

\* the 250 texts were returned by the three requests of an invocation that
\* followed a status 429
ReturnedAfterRateLimit ==
    /\ gePc = "returned"
    /\ Len(textArray) = 250
    /\ geCalls > 1
    /\ geReqs = 3
    /\ geItemReqs = 0
    /\ geResult[1].call = geCalls


\* C27: the step in which a request fails with a status other than 429, or
\* other than 400 for several texts, throws at once: it starts no new
\* invocation and sends no request, of the try block or of the fallback,
\* and nothing follows the throw; every failure of a request of the
\* fallback, status 429 included, is thrown in the same way, so status 429
\* is only ever thrown from the fallback
OtherFailuresPropagate ==
    /\ [](gePc = "thrown"
             => /\ geReq = <<>>
                /\ geStatus \in {400, 429, 500}
                /\ geStatus = 429 => geItemReqs > 0)
    /\ [][gePc # "thrown"]_vars
    /\ [][gePc' = "thrown"
             => /\ geErrors' = geErrors + 1
                /\ geCalls' = geCalls
                /\ geReqs' = geReqs
                /\ geItemReqs' = geItemReqs
                /\ embeddings' = embeddings]_vars
    /\ [][(gePc = "individual" /\ geErrors' # geErrors) => gePc' = "thrown"]_vars

\* a status 429 of the try block had been retried, and the status 429 of a
\* later request of the fallback was thrown
RateLimitThrownFromFallback ==
    /\ gePc = "thrown"
    /\ geStatus = 429
    /\ geCalls > 1
    /\ geItemReqs > 1


\* C28: every call of collection.add follows a returned generateEmbeddings
\* and passes as many ids, documents, vectors and metadatas as the batch
\* has chunks; entry j holds chunk i + j of the page, the vector returned
\* for that chunk, and chunk_index = i + j, which is less than
\* total_chunks; records enter the collection in such a call only, so
\* every record stored holds the vector of its own chunk
AddPairsChunksWithVectors ==
    /\ [][(tPc = "embedding" /\ passedIds' # passedIds)
             => LET n   == Min(batchStart + embeddingBatchSize, Len(chunks)) - batchStart
                    new == coll'.records \ coll.records
                IN  /\ gePc = "returned"
                    /\ n > 0
                    /\ Len(passedIds') = Len(passedIds) + n
                    /\ Len(geResult) = n
                    /\ \A j \in 0..(n - 1) :
                          /\ batchStart + j < Len(chunks)
                          /\ geResult[j + 1].of = batchStart + j
                          /\ passedIds'[Len(passedIds) + j + 1]
                                = BatchId(pageIndex, batchStart + j, now, j)
                    /\ \/ new = {}
                       \/ new = {[run          |-> run,
                                  page_index   |-> pageIndex,
                                  chunk_index  |-> batchStart + j,
                                  total_chunks |-> Len(chunks),
                                  document     |-> chunks[batchStart + j + 1],
                                  embedding    |-> geResult[j + 1],
                                  id           |-> BatchId(pageIndex, batchStart + j, now, j)] :
                                    j \in 0..(n - 1)}]_vars
    /\ [][coll'.records \subseteq coll.records
             \/ (tPc = "embedding" /\ gePc = "returned" /\ passedIds' # passedIds)]_vars
    /\ [](\A rec \in coll.records :
             /\ rec.embedding.of = rec.chunk_index
             /\ rec.chunk_index < rec.total_chunks)

\* the second batch of a page was stored after the first batch of that page
\* had failed
SecondBatchStoredAfterFailedFirst ==
    \E rec \in coll.records :
        /\ rec.chunk_index = embeddingBatchSize
        /\ rec.embedding.of = embeddingBatchSize
        /\ \A other \in coll.records :
              other.page_index = rec.page_index => other.chunk_index >= embeddingBatchSize


\* C29: every fetch but the first of a crawl happens after the delay that
\* followed the fetch before it, whether or not entries were skipped in
\* between
DelayBetweenFetches ==
    [][(fetched # <<>> /\ fetched' # fetched) => crDelayed]_vars

\* a seed was fetched, the second seed was skipped, and then a link of the
\* first seed was fetched
FetchedAcrossSkippedEntry ==
    /\ Len(startUrls) = 2
    /\ Len(fetched) = 2
    /\ fetched[1] = Entry(startUrls[1], 0)
    /\ fetched[2].depth = 1
    /\ crSkipped = <<Entry(startUrls[2], 0)>>


Outcomes(log) == [k \in 1..Len(log) |-> log[k].outcome]

\* the (page_index, chunk_index, chunk text) triple of a record
LogicalChunk(rec) ==
    [page_index |-> rec.page_index, chunk_index |-> rec.chunk_index, document |-> rec.document]

\* the triples a run added, in the order in which it added them
RECURSIVE AddedChunks(_)
AddedChunks(log) ==
    IF log = <<>> THEN <<>>
    ELSE AddedChunks(SubSeq(log, 1, Len(log) - 1))
            \o [j \in 1..Len(log[Len(log)].records) |-> LogicalChunk(log[Len(log)].records[j])]

\* the ids a run passed with the records it added, without their timestamps
RECURSIVE AddedIdsWithoutTime(_)
AddedIdsWithoutTime(log) ==
    IF log = <<>> THEN <<>>
    ELSE AddedIdsWithoutTime(SubSeq(log, 1, Len(log) - 1))
            \o [j \in 1..Len(log[Len(log)].records) |->
                   LET rec == log[Len(log)].records[j]
                   IN  CHOOSE rest \in {<<rec.page_index, rec.chunk_index, j - 1>>} :
                          \E time \in 0..now :
                             rec.id = BatchId(rest[1], rest[2], time, rest[3])]

TrimmedLen(t) == TrimmedSlice(t, 0, TextLen(t)).to - TrimmedSlice(t, 0, TextLen(t)).from

\* C32: splitTextIntoChunks returns no chunk for a text whose trimmed length
\* is at most MinChunkChars, whatever the chunkSize and overlap; the step
\* of storeInChromaDB that chunks such a page goes on to the next page and
\* leaves generateEmbeddings uncalled and the collection, the ids passed to
\* it and the counter as they were
ThinPageYieldsNoChunkAndIsSkipped ==
    /\ []((cPc = "done" /\ TrimmedLen(text) <= MinChunkChars) => chunks = <<>>)
    /\ [][(/\ tPc = "page"
           /\ pageIndex < Len(scrapedContent)
           /\ TrimmedLen(scrapedContent[pageIndex + 1].content) <= MinChunkChars)
             => /\ chunks' = <<>>
                /\ pageIndex' = pageIndex + 1
                /\ tPc' = "page"
                /\ UNCHANGED <<embedVars, coll, passedIds, totalChunks, batchStart>>]_vars

\* a thin page was skipped and the page after it was stored
PageStoredAfterThinPage ==
    /\ tPc = "done"
    /\ Len(scrapedContent) = 2
    /\ TrimmedLen(scrapedContent[1].content) = MinChunkChars
    /\ TextLen(scrapedContent[1].content) > MinContentChars
    /\ coll.records # {}
    /\ \A rec \in coll.records : rec.page_index = 1


\* chunk.length of an emitted chunk
ChunkLen(chunk) == chunk.to - chunk.from

\* C33 as stated: every chunk emitted has at least MinChunkChars characters
\* and at most as many as the chunkSize the caller passed
ChunkLengthsWithinPassedSize ==
    \A k \in 1..Len(chunks) :
        /\ ChunkLen(chunks[k]) >= MinChunkChars
        /\ ChunkLen(chunks[k]) <= cArgs[1]

\* C33: every chunk emitted has more than MinChunkChars characters and at
\* most as many as the chunkSize in force: the one the caller passed when it
\* exceeds the overlap, and DefaultChunkSize otherwise
ChunkLengthsWithinEffectiveSize ==
    \A k \in 1..Len(chunks) :
        /\ ChunkLen(chunks[k]) > MinChunkChars
        /\ ChunkLen(chunks[k]) <= EffectiveChunkSize(cArgs[1], cArgs[2])

\* the call with chunkSize 250 and overlap 300 has returned a chunk of
\* DefaultChunkSize characters
ChunkOfDefaultSizeForInvalidPair ==
    /\ cPc = "done"
    /\ cArgs = <<250, 300>>
    /\ \E k \in 1..Len(chunks) : ChunkLen(chunks[k]) = DefaultChunkSize



\* the input fits one request: one text, or several texts that are at most
\* maxBatchSize and whose total length is at most the character budget
FitsOneRequest(ta) ==
    \/ Len(ta) = 1
    \/ /\ Len(ta) > 1
       /\ Len(ta) <= maxBatchSize
       /\ TotalChars(ta) <= maxTokensPerRequest

\* C34: for an input that fits one request, every request of the try block
\* is the first of its invocation and carries the whole input, and an
\* invocation that returns without the per-item fallback has sent exactly
\* one request, also when the total length equals the character budget
OneRequestWhenInputFits ==
    FitsOneRequest(textArray)
        => /\ InTryBlock => geReqs = 1 /\ geReq = textArray
           /\ (gePc = "returned" /\ geItemReqs = 0)
                 => /\ geReqs = 1
                    /\ Len(geResult) = Len(textArray)

\* several texts whose total length is exactly the character budget have
\* been embedded by the request of the remaining batch
ReturnedAtExactBudget ==
    /\ gePc = "returned"
    /\ geItemReqs = 0
    /\ Len(textArray) > 1
    /\ TotalChars(textArray) = maxTokensPerRequest
    /\ currentBatch = textArray
    /\ geReqs = 1



\* C35: a call with chunkSize <= overlap on a text that is not empty goes on
\* with chunkSize 1500 and overlap 150, and what it returns is what the call
\* with (1500, 150) returns for the same text
InvalidPairChunksAsDefaults ==
    /\ [](cArgs[1] <= cArgs[2]
            => /\ cPc = "loop"
                    => chunkSize = DefaultChunkSize /\ overlap = DefaultOverlap
               /\ cPc = "done"
                    => chunks = splitTextIntoChunks(text, DefaultChunkSize, DefaultOverlap))
    /\ [][(cPc = "entry" /\ cPc' = "loop" /\ cArgs[1] <= cArgs[2])
             => chunkSize' = DefaultChunkSize /\ overlap' = DefaultOverlap]_vars

\* a call with chunkSize 250 and overlap 300 has returned two chunks, the
\* second starting 150 characters before the end of the first
InvalidPairReturnedTwoDefaultChunks ==
    /\ cPc = "done"
    /\ cArgs = <<250, 300>>
    /\ Len(chunks) = 2
    /\ chunks[1].to = DefaultChunkSize
    /\ chunks[2].from = DefaultChunkSize - DefaultOverlap



\* while the loop runs, a window that is not clipped at the end of the text
\* is followed by a window that starts overlap characters before its end,
\* and the cursor moves by floor(chunkSize / 2) only when end - overlap does
\* not strictly advance it
WindowsAdvanceByOverlap ==
    [][cPc = "loop"
          => /\ start + chunkSize <= TextLen(text)
                   => start' = start + chunkSize - overlap
             /\ start' # Min(start + chunkSize, TextLen(text)) - overlap
                   => /\ Min(start + chunkSize, TextLen(text)) - overlap <= start
                      /\ start' = start + (chunkSize \div 2)]_vars

\* two adjacent chunks of the result, the earlier from a window that was not
\* clipped, share exactly overlap characters of the text
AdjacentChunksShareOverlap ==
    \A k \in 1..(Len(chunks) - 1) :
        chunks[k].from + chunkSize <= TextLen(text)
            => chunks[k].to - chunks[k + 1].from = overlap

\* C36: consecutive windows advance by chunkSize - overlap unless the window
\* was clipped, the forced advance is taken only when end - overlap does not
\* move the cursor forward, and adjacent chunks of the result share exactly
\* overlap characters
AdjacentChunksOverlapExactly ==
    /\ WindowsAdvanceByOverlap
    /\ [](cPc = "done" => AdjacentChunksShareOverlap)



\* C37: the records of a run in the collection differ in their
\* (page_index, chunk_index) pair, in both trainers and whatever batch or
\* chunk failed before
NoChunkStoredTwice ==
    \A r1, r2 \in coll.records :
        (/\ r1.run = r2.run
         /\ r1.page_index = r2.page_index
         /\ r1.chunk_index = r2.chunk_index) => r1 = r2

\* the legacy run is over; a page has chunks stored by a batch and chunks
\* stored one by one after the add of their batch was rejected
PageStoredByBatchAndIndividually ==
    /\ trainer = "legacy"
    /\ tPc = "done"
    /\ addFailures > 0
    /\ \E r1, r2 \in coll.records :
          /\ r1.page_index = r2.page_index
          /\ r1.id[Len(r1.id)] = "_individual"
          /\ r2.id[Len(r2.id)] # "_individual"



\* C38: at most one request to the chat API is in flight and isLoading is
\* true exactly while one is; a handler invoked while isLoading is true
\* sends no request and leaves the conversation and the input as they are
OneChatRequestInFlight ==
    /\ [](/\ Len(chatRequests) <= 1
          /\ isLoading <=> Len(chatRequests) = 1)
    /\ [][(isLoading /\ chatCalls' # chatCalls)
             => /\ chatSent' = chatSent
                /\ chatIgnored' >= chatIgnored
                /\ UNCHANGED <<chatRequests, isLoading, conversationHistory, messageInput>>]_vars

\* a request failed and a later one was answered, handlers invoked in the
\* meantime having returned early, and no request is in flight
ChatAnsweredAfterFailureAndIgnoredCalls ==
    /\ chatSent = 2
    /\ chatIgnored > 0
    /\ ~isLoading
    /\ chatRequests = <<>>
    /\ Len(conversationHistory) = 4
    /\ conversationHistory[2].content = <<"error">>
    /\ conversationHistory[4].content = <<"response">>



\* the run is in the loops of storeInChromaDB, the collection created
InStoreLoops == tPc \in {"page", "batch", "embedding"}

\* the records this step has put into the collection for the run
AddedByRun == {rec \in coll'.records \ coll.records : rec.run = run}

\* in every step taken while the run is in its loops, totalChunks grows by
\* the number of records the run has added to the collection in that step
CounterFollowsAdds ==
    [][InStoreLoops => totalChunks' = totalChunks + Cardinality(AddedByRun)]_vars

\* C39 as stated: the counter follows the adds of the run, and the
\* totalChunks returned is the number of records in the collection
ReturnedTotalIsCollectionCount ==
    /\ CounterFollowsAdds
    /\ [][(InStoreLoops /\ tPc' = "done")
             => Cardinality(coll'.records) = totalChunks']_vars

\* C39: the counter follows the adds of the run; while no other run has
\* entered storeInChromaDB since this one did, the collection holds the
\* records of this run only, as many as totalChunks, in the loops and at the
\* return
TotalIsCollectionCountWhenAlone ==
    /\ CounterFollowsAdds
    /\ []((InStoreLoops /\ ~overlapped)
             => /\ \A rec \in coll.records : rec.run = run
                /\ Cardinality(coll.records) = totalChunks)
    /\ [][(InStoreLoops /\ tPc' = "done" /\ ~overlapped')
             => Cardinality(coll'.records) = totalChunks']_vars

\* the run has returned with no other run started; a batch had failed, and
\* the collection holds as many records as the run counted
ReturnedCountAfterFailedBatch ==
    /\ tPc = "done"
    /\ peerPc = "idle"
    /\ totalChunks > 0
    /\ addFailures > 0
    /\ Len(passedIds) > totalChunks
    /\ Cardinality(coll.records) = totalChunks

=============================================================================
